---- MODULE Spec2Model ----
(***************************************************************************)
(* A model of the command/undo-redo core of the path editor                *)
(* (src/unnamed/part_000: CommandHistory and the command classes) over the *)
(* control/segment/path object graph of src/src/math/Path.tsx.             *)
(*                                                                         *)
(* Objects have identity: every control, segment, keyframe, path and       *)
(* command is an index into a heap sequence (ctl, segs, kfs, pths, cmds),  *)
(* and lists of objects are sequences of such indices.  Index 0 stands for *)
(* the JavaScript value undefined.  Coordinates are integers counting      *)
(* thousandths, so fixPrecision(3) keeps them and fixPrecision(2) rounds   *)
(* them to a multiple of 10.                                               *)
(***************************************************************************)
EXTENDS Integers, Sequences, FiniteSets, TLC

VARIABLES
    ctl,            \* heap of Control / EndPointControl objects
    segs,           \* heap of Segment objects
    kfs,            \* heap of Keyframe objects
    pths,           \* heap of Path objects
    paths,          \* app.paths, the document's path list
    cmds,           \* heap of command objects
    lastExecution,  \* CommandHistory.lastExecution (the pending entry)
    history,        \* CommandHistory.history (the done stack)
    redoHistory,    \* CommandHistory.redoHistory (the undone stack)
    savedCommand,   \* CommandHistory.savedCommand
    selected,       \* app.selectedEntities, written by app.setSelected
    now,            \* the last value read from Date.now()
    crashed,        \* a TypeError has left a handler
    op,             \* observer: the handler that ran last and what it did
    calls,          \* observer: the command methods the last handler called
    snap,           \* observer: the document around the last execute
    life,           \* observer: per command, whether its effect is done or undone
    clip,           \* AppClipboard: its message, and what its last handler did
    kn,             \* a path given to calculateKnots, its configuration and its knots
    ui,             \* the lock flags of controls and paths, and the last click on a hit box
    vx,             \* a vector operation, its operands and its result
    sm              \* the sampling loops of calculateKnots, one iteration at a time

vars == <<ctl, segs, kfs, pths, paths, cmds, lastExecution, history,
          redoHistory, savedCommand, selected, now, crashed, op, calls, snap, life,
          clip, kn, ui, vx, sm>>

(***************************************************************************)
(* Bounds of the model.                                                    *)
(***************************************************************************)
MaxCmds == 2        \* commands executed in Spec
MaxSegCmds == 3     \* commands executed in SpecSeg
MaxKfCmds == 3      \* commands executed in SpecKf
MaxHistCmds == 2    \* commands executed in SpecHist
MaxKfs == 2         \* keyframes in the document
MaxHandles == 2     \* controls a caller drags or edits
MaxDragCmds == 2    \* commands executed in SpecDrag
MaxGroup == 3       \* controls of a drag with two followers
MaxPathCmds == 4    \* commands executed in SpecPath
MaxClipMsgs == 3    \* messages copied or received in SpecClip
MaxCuts == 2        \* commands of the clipboard in SpecCut and SpecPaste
MaxClicks == 2      \* clicks on a hit box in SpecHitBox
MaxSamples == 20    \* rounds of a sampling loop that are counted
ShortGap == 100     \* a pause between two executes, in ms
LongGap == 500      \* a longer pause between two executes, in ms

(***************************************************************************)
(* Program constants.                                                      *)
(***************************************************************************)
MergeTimeout == 500     \* execute(title, command, mergeTimeout = 500)
Milli == 1000           \* one unit of length, in thousandths
CurveOffset == 24       \* addCurve: the handles of a first curve

Undefined == 0
None == [title |-> "", command |-> 0, time |-> 0, mergeTimeout |-> 0]

(***************************************************************************)
(* JavaScript arrays.  Indices are 0-based as in the source.               *)
(***************************************************************************)
Min(a, b) == IF a < b THEN a ELSE b
Max(a, b) == IF a > b THEN a ELSE b

Range(s) == {s[i] : i \in 1..Len(s)}

\* Array.prototype.indexOf: the first index holding x, or -1
IndexOf(s, x) ==
    IF \E i \in 1..Len(s) : s[i] = x
    THEN (CHOOSE i \in 1..Len(s) : s[i] = x /\ \A j \in 1..(i-1) : s[j] # x) - 1
    ELSE -1

\* the normalised start index of splice and slice
RelIndex(len, k) == IF k < 0 THEN Max(len + k, 0) ELSE Min(k, len)

\* Array.prototype.splice(start, deleteCount, ...items): the array afterwards
Splice(s, start, deleteCount, items) ==
    LET b == RelIndex(Len(s), start)
        d == Min(Max(deleteCount, 0), Len(s) - b)
    IN SubSeq(s, 1, b) \o items \o SubSeq(s, b + d + 1, Len(s))

\* Array.prototype.slice(start, end)
Slice(s, start, end) ==
    LET b == RelIndex(Len(s), start)
        e == RelIndex(Len(s), end)
    IN SubSeq(s, b + 1, e)

\* Array.prototype.pop: the array afterwards
Pop(s) == SubSeq(s, 1, Len(s) - 1)

\* the element at a 0-based index, undefined outside the array
At(s, k) == IF k >= 0 /\ k < Len(s) THEN s[k + 1] ELSE Undefined

(***************************************************************************)
(* Vertex arithmetic (src/src/math/Path.tsx).  A point is a record         *)
(* [x, y, heading, end]; end tells an EndPointControl from a plain         *)
(* Control or Vector.                                                      *)
(***************************************************************************)
Control(x, y) == [x |-> x, y |-> y, heading |-> 0, end |-> FALSE]
EndPointControl(x, y, h) == [x |-> x, y |-> y, heading |-> h, end |-> TRUE]

\* the integer nearest to n / d, halves away from zero (Number.toFixed)
RoundDiv(n, d) ==
    IF n >= 0 THEN (2 * n + d) \div (2 * d) ELSE -((2 * (-n) + d) \div (2 * d))

Pow10(k) == IF k = 0 THEN 1 ELSE IF k = 1 THEN 10 ELSE IF k = 2 THEN 100 ELSE 1000

\* parseFloat(v.toFixed(p)) of a value counted in thousandths
ToFixed(v, p) == Pow10(3 - p) * RoundDiv(v, Pow10(3 - p))

\* Vertex.fixPrecision(p = 3), overridden by EndPointControl.fixPrecision(p = 2)
fixPrecision(v) ==
    IF v.end
    THEN [v EXCEPT !.x = ToFixed(v.x, 2), !.y = ToFixed(v.y, 2),
                   !.heading = ToFixed(((v.heading % (360 * Milli)) + 360 * Milli) % (360 * Milli), 2)]
    ELSE [v EXCEPT !.x = ToFixed(v.x, 3), !.y = ToFixed(v.y, 3)]

\* this.add(vector): the result is a clone of the argument
add(this, vector) ==
    fixPrecision([vector EXCEPT !.x = vector.x + this.x, !.y = vector.y + this.y])

subtract(this, vector) ==
    fixPrecision([vector EXCEPT !.x = this.x - vector.x, !.y = this.y - vector.y])

\* the quotient a / b of two values counted in thousandths, rounded to p decimals
QuotFixed(a, b, p) ==
    LET q == Pow10(3 - p)
    IN IF b < 0 THEN q * RoundDiv(-(a * Milli), (-b) * q) ELSE q * RoundDiv(a * Milli, b * q)

\* this.divide(vector), for a divisor without a zero coordinate
divide(this, vector) ==
    LET p == IF vector.end THEN 2 ELSE 3
    IN fixPrecision([vector EXCEPT !.x = QuotFixed(this.x, vector.x, p),
                                   !.y = QuotFixed(this.y, vector.y, p)])

\* the product a * b of two values counted in thousandths, rounded to p decimals
ProdFixed(a, b, p) == Pow10(3 - p) * RoundDiv(a * b, Milli * Pow10(3 - p))

multiply(this, vector) ==
    LET p == IF vector.end THEN 2 ELSE 3
    IN fixPrecision([vector EXCEPT !.x = ProdFixed(vector.x, this.x, p),
                                   !.y = ProdFixed(vector.y, this.y, p)])

\* this.interpolate(other, distance) for a point other at the height of this:
\* the angle is 0 when other is not to the left of this, and pi otherwise
interpolate(this, other, distance) ==
    fixPrecision([other EXCEPT !.x = IF other.x >= this.x THEN this.x + distance
                                     ELSE this.x - distance,
                               !.y = this.y])

mirror(this, other) ==
    fixPrecision([other EXCEPT !.x = 2 * this.x - other.x, !.y = 2 * this.y - other.y])

\* this.setXY(other): writes this in place
setXY(this, other) == fixPrecision([this EXCEPT !.x = other.x, !.y = other.y])

(***************************************************************************)
(* The object graph.  A world w is a record of the heaps; the methods of   *)
(* the commands map a world to the world after the call.                   *)
(***************************************************************************)
World == [ctl |-> ctl, segs |-> segs, kfs |-> kfs, pths |-> pths,
          paths |-> paths, cmds |-> cmds, crashed |-> crashed]

\* an InteractiveEntity: a control or a path
CtlEntity(c) == [t |-> "control", id |-> c]
PathEntity(p) == [t |-> "path", id |-> p]
CtlEntities(s) == [i \in 1..Len(s) |-> CtlEntity(s[i])]

\* Segment.first / Segment.last, the getters
first(w, s) == At(w.segs[s].controls, 0)
last(w, s) == At(w.segs[s].controls, Len(w.segs[s].controls) - 1)

\* Segment.last = point, the setter (Spline.setLast)
setLast(w, s, point) ==
    LET n == Len(w.segs[s].controls)
    IN IF n = 0 THEN w ELSE [w EXCEPT !.segs[s].controls[n] = point]

\* new Control(...) / new EndPointControl(...): the new object is Len(w.ctl)
newControl(w, v) == [w EXCEPT !.ctl = Append(@, v)]

\* new Segment(start, middle, end): the new object is Len(w.segs)
newSegment(w, start, middle, end) ==
    [w EXCEPT !.segs = Append(@, [controls |-> <<start>> \o middle \o <<end>>,
                                   speedProfiles |-> <<>>])]

\* Path.controls (Path.getControlsSet): the controls of a path, shared ones once
RECURSIVE pathControls(_, _, _)
pathControls(w, segments, i) ==
    IF i > Len(segments) THEN <<>>
    ELSE LET cs == w.segs[segments[i]].controls
         IN (IF i = 1 THEN cs ELSE SubSeq(cs, 2, Len(cs))) \o pathControls(w, segments, i + 1)

NoPos == [segment |-> 0, xPos |-> 0, yPos |-> 0]

\* a command object as constructed; every class uses its own fields
BlankCommand ==
    [kind |-> "", path |-> 0, end |-> 0, variant |-> "", forward |-> TRUE,
     segment |-> 0, entities |-> <<>>,
     previousControls |-> <<>>, newControls |-> <<>>,
     originalSegment |-> 0, point |-> 0, newSegment |-> 0,
     previousOriginalSegmentControls |-> <<>>, newOriginalSegmentControls |-> <<>>,
     index |-> -1,
     main |-> 0, from |-> Control(0, 0), to |-> Control(0, 0), followers |-> <<>>,
     kf |-> 0, pos |-> NoPos, newPos |-> NoPos, oldPos |-> NoPos, oldIdx |-> -1,
     targets |-> <<>>, newValues |-> <<>>, previousValue |-> <<>>, hasPreviousValue |-> FALSE,
     items |-> <<>>, original |-> <<>>, idx |-> 0, inserting |-> <<>>]

Half == Control(2 * Milli, 2 * Milli)

\* p0.divide(new Control(2, 2)).add(p3.divide(new Control(2, 2)))
midpoint(p0, p3) == add(divide(p0, Half), divide(p3, Half))

(***************************************************************************)
(* AddSegment                                                              *)
(***************************************************************************)
AddSegmentAddLine(w, c) ==
    LET cmd == w.cmds[c]
        segments == w.pths[cmd.path].segments
        w1 == IF Len(segments) = 0 THEN newControl(w, EndPointControl(0, 0, 0)) ELSE w
        start == IF Len(segments) = 0 THEN Len(w1.ctl) ELSE last(w, segments[Len(segments)])
        w2 == newSegment(w1, start, <<>>, cmd.end)
        s == Len(w2.segs)
    IN [w2 EXCEPT !.cmds[c].segment = s,
                  !.cmds[c].entities = Append(@, CtlEntity(cmd.end)),
                  !.pths[cmd.path].segments = Append(@, s)]

AddSegmentAddCurve(w, c) ==
    LET cmd == w.cmds[c]
        segments == w.pths[cmd.path].segments
        p3 == cmd.end
    IN IF Len(segments) = 0
       THEN LET w1 == newControl(w, EndPointControl(0, 0, 0))
                p0 == Len(w1.ctl)
                w2 == newControl(w1, Control(w1.ctl[p0].x, w1.ctl[p0].y + CurveOffset * Milli))
                p1 == Len(w2.ctl)
                w3 == newControl(w2, Control(w.ctl[p3].x, w.ctl[p3].y - CurveOffset * Milli))
                p2 == Len(w3.ctl)
                w4 == newSegment(w3, p0, <<p1, p2>>, p3)
                s == Len(w4.segs)
            IN [w4 EXCEPT !.cmds[c].segment = s,
                          !.cmds[c].entities = @ \o CtlEntities(<<p0, p1, p2, p3>>),
                          !.pths[cmd.path].segments = Append(@, s)]
       ELSE LET lastSeg == segments[Len(segments)]
                p0 == last(w, lastSeg)
                cc == IF Len(w.segs[lastSeg].controls) < 4
                      THEN At(w.segs[lastSeg].controls, 0) ELSE At(w.segs[lastSeg].controls, 2)
                w1 == newControl(w, mirror(w.ctl[p0], Control(w.ctl[cc].x, w.ctl[cc].y)))
                p1 == Len(w1.ctl)
                w2 == newControl(w1, midpoint(w.ctl[p0], w.ctl[p3]))
                p2 == Len(w2.ctl)
                w3 == newSegment(w2, p0, <<p1, p2>>, p3)
                s == Len(w3.segs)
            IN [w3 EXCEPT !.cmds[c].segment = s,
                          !.cmds[c].entities = @ \o CtlEntities(<<p1, p2, p3>>),
                          !.pths[cmd.path].segments = Append(@, s)]

AddSegmentExecute(w, c) ==
    LET w1 == IF w.cmds[c].variant = "LINEAR" THEN AddSegmentAddLine(w, c)
              ELSE IF w.cmds[c].variant = "CURVE" THEN AddSegmentAddCurve(w, c)
              ELSE w
    IN [w1 EXCEPT !.cmds[c].forward = TRUE]

AddSegmentUndo(w, c) ==
    [w EXCEPT !.pths[w.cmds[c].path].segments = Pop(@), !.cmds[c].forward = FALSE]

AddSegmentRedo(w, c) ==
    [w EXCEPT !.pths[w.cmds[c].path].segments = Append(@, w.cmds[c].segment),
              !.cmds[c].forward = TRUE]

AddSegmentEntities(w, c) == IF w.cmds[c].forward THEN w.cmds[c].entities ELSE <<>>

(***************************************************************************)
(* ConvertSegment                                                          *)
(***************************************************************************)
ConvertSegmentConvertToLine(w, c) ==
    LET s == w.cmds[c].segment
    IN [w EXCEPT !.segs[s].controls = Splice(@, 1, Len(@) - 2, <<>>)]

\* p2 of convertToCurve: p3.mirror(next.controls[1]) is a clone of its argument
ConvertP2(p0, p3, hasNext, nextSecond) ==
    IF hasNext THEN mirror(p3, nextSecond) ELSE midpoint(p0, p3)

\* p1 of convertToCurve: the mirror image rebuilt as a plain Control
ConvertP1(p0, p3, hasPrev, prevSecondLast) ==
    IF hasPrev
    THEN LET m == mirror(p0, prevSecondLast) IN Control(m.x, m.y)
    ELSE midpoint(p0, p3)

ConvertSegmentConvertToCurve(w, c) ==
    LET cmd == w.cmds[c]
        segments == w.pths[cmd.path].segments
        index == IndexOf(segments, cmd.segment)
    IN IF index = -1 THEN w
       ELSE LET hasPrev == index > 0
                hasNext == index + 1 < Len(segments)
                p0 == first(w, cmd.segment)
                p3 == last(w, cmd.segment)
                prevCs == w.segs[At(segments, index - 1)].controls
                nextCs == w.segs[At(segments, index + 1)].controls
                w1 == newControl(w, ConvertP1(w.ctl[p0], w.ctl[p3], hasPrev,
                                    IF hasPrev THEN w.ctl[At(prevCs, Len(prevCs) - 2)]
                                    ELSE Control(0, 0)))
                p1 == Len(w1.ctl)
                w2 == newControl(w1, ConvertP2(w.ctl[p0], w.ctl[p3], hasNext,
                                    IF hasNext THEN w.ctl[At(nextCs, 1)] ELSE Control(0, 0)))
                p2 == Len(w2.ctl)
            IN [w2 EXCEPT !.segs[cmd.segment].controls = <<p0, p1, p2, p3>>]

ConvertSegmentExecute(w, c) ==
    LET s == w.cmds[c].segment
        w1 == [w EXCEPT !.cmds[c].previousControls = w.segs[s].controls]
        w2 == IF w.cmds[c].variant = "LINEAR" THEN ConvertSegmentConvertToLine(w1, c)
              ELSE IF w.cmds[c].variant = "CURVE" THEN ConvertSegmentConvertToCurve(w1, c)
              ELSE w1
    IN [w2 EXCEPT !.cmds[c].newControls = w2.segs[s].controls]

ConvertSegmentUndo(w, c) ==
    [w EXCEPT !.segs[w.cmds[c].segment].controls = w.cmds[c].previousControls]

ConvertSegmentRedo(w, c) ==
    [w EXCEPT !.segs[w.cmds[c].segment].controls = w.cmds[c].newControls]

ConvertSegmentEntities(w, c) ==
    CtlEntities(Slice(w.segs[w.cmds[c].segment].controls, 1, -1))

(***************************************************************************)
(* SplitSegment                                                            *)
(***************************************************************************)
SplitSegmentExecute(w, c) ==
    LET cmd == w.cmds[c]
        os == cmd.originalSegment
        segments == w.pths[cmd.path].segments
        index == IndexOf(segments, os)
        cs == w.segs[os].controls
        w0 == [w EXCEPT !.cmds[c].previousOriginalSegmentControls = cs]
    IN IF index = -1 THEN w0
       ELSE LET w3 ==
                  IF Len(cs) = 2
                  THEN LET w1 == setLast(w0, os, cmd.point)
                           w2 == newSegment(w1, cmd.point, <<>>, last(w0, os))
                       IN [w2 EXCEPT !.cmds[c].newSegment = Len(w2.segs),
                                     !.pths[cmd.path].segments =
                                         Splice(@, index + 1, 0, <<Len(w2.segs)>>),
                                     !.cmds[c].entities = CtlEntities(<<cmd.point>>)]
                  ELSE IF Len(cs) = 4
                  THEN LET p0 == cs[1]
                           p1 == cs[2]
                           p2 == cs[3]
                           p3 == cs[4]
                           w1 == newControl(w0, midpoint(w.ctl[p1], w.ctl[cmd.point]))
                           a == Len(w1.ctl)
                           b == cmd.point
                           w2 == newControl(w1, midpoint(w.ctl[p2], w.ctl[cmd.point]))
                           cc == Len(w2.ctl)
                           w2a == [w2 EXCEPT !.segs[os].controls = <<p0, p1, a, b>>]
                           w2b == newSegment(w2a, b, <<cc, p2>>, p3)
                       IN [w2b EXCEPT !.cmds[c].newSegment = Len(w2b.segs),
                                      !.pths[cmd.path].segments =
                                          Splice(@, index + 1, 0, <<Len(w2b.segs)>>),
                                      !.cmds[c].entities = CtlEntities(<<a, b, cc>>)]
                  ELSE w0
            IN [w3 EXCEPT !.cmds[c].newOriginalSegmentControls = w3.segs[os].controls,
                          !.cmds[c].forward = TRUE]

SplitSegmentUndo(w, c) ==
    LET cmd == w.cmds[c]
        w1 == [w EXCEPT !.segs[cmd.originalSegment].controls =
                            cmd.previousOriginalSegmentControls]
        index == IndexOf(w1.pths[cmd.path].segments, cmd.newSegment)
    IN [w1 EXCEPT !.pths[cmd.path].segments = Splice(@, index, 1, <<>>),
                  !.cmds[c].forward = FALSE]

SplitSegmentRedo(w, c) ==
    LET cmd == w.cmds[c]
        index == IndexOf(w.pths[cmd.path].segments, cmd.originalSegment)
    IN [w EXCEPT !.segs[cmd.originalSegment].controls = cmd.newOriginalSegmentControls,
                 !.pths[cmd.path].segments = Splice(@, index + 1, 0, <<cmd.newSegment>>),
                 !.cmds[c].forward = TRUE]

SplitSegmentEntities(w, c) == IF w.cmds[c].forward THEN w.cmds[c].entities ELSE <<>>

(***************************************************************************)
(* RemoveSegment                                                           *)
(***************************************************************************)
\* the condition of the loop of RemoveSegment.execute at index i (0-based)
RemoveSegmentHit(w, segments, point, i) ==
    \/ first(w, At(segments, i)) = point
    \/ i + 1 = Len(segments) /\ last(w, At(segments, i)) = point

\* a removal that leaves the last control of the previous segment as it is
removeWithoutRelink(w, c) ==
    LET cmd == w.cmds[c]
        segments == w.pths[cmd.path].segments
        hits == {i \in 0..(Len(segments) - 1) : RemoveSegmentHit(w, segments, cmd.point, i)}
    IN IF hits = {} THEN [w EXCEPT !.cmds[c].forward = TRUE]
       ELSE LET i == CHOOSE k \in hits : \A j \in hits : k <= j
                segment == At(segments, i)
                cs == w.segs[segment].controls
                isFirst == first(w, segment) = cmd.point
                ents == IF i = 0 THEN cs
                        ELSE IF isFirst THEN Slice(cs, 0, -1) ELSE Slice(cs, 1, Len(cs))
            IN [w EXCEPT !.cmds[c].entities = CtlEntities(ents),
                         !.pths[cmd.path].segments = Splice(@, i, 1, <<>>),
                         !.cmds[c].index = i,
                         !.cmds[c].segment = segment,
                         !.cmds[c].forward = TRUE]

RemoveSegmentExecute(w, c) ==
    LET cmd == w.cmds[c]
        segments == w.pths[cmd.path].segments
        hits == {i \in 0..(Len(segments) - 1) : RemoveSegmentHit(w, segments, cmd.point, i)}
    IN IF hits = {} THEN [w EXCEPT !.cmds[c].forward = TRUE]
       ELSE LET i == CHOOSE k \in hits : \A j \in hits : k <= j
                segment == At(segments, i)
                cs == w.segs[segment].controls
                isFirst == first(w, segment) = cmd.point
                w1 == IF isFirst /\ i # 0
                      THEN setLast(w, At(segments, i - 1), last(w, segment)) ELSE w
                ents == IF i = 0 THEN cs
                        ELSE IF isFirst THEN Slice(cs, 0, -1) ELSE Slice(cs, 1, Len(cs))
            IN [w1 EXCEPT !.cmds[c].entities = CtlEntities(ents),
                          !.pths[cmd.path].segments = Splice(@, i, 1, <<>>),
                          !.cmds[c].index = i,
                          !.cmds[c].segment = segment,
                          !.cmds[c].forward = TRUE]

RemoveSegmentUndo(w, c) ==
    LET cmd == w.cmds[c]
    IN IF cmd.index = -1 THEN w
       ELSE LET w1 == [w EXCEPT !.pths[cmd.path].segments =
                                    Splice(@, cmd.index, 0, <<cmd.segment>>)]
                w2 == IF first(w1, cmd.segment) = cmd.point /\ cmd.index > 0
                      THEN setLast(w1, At(w1.pths[cmd.path].segments, cmd.index - 1),
                                   first(w1, cmd.segment))
                      ELSE w1
            IN [w2 EXCEPT !.cmds[c].forward = FALSE]

RemoveSegmentRedo(w, c) ==
    LET cmd == w.cmds[c]
    IN IF cmd.index = -1 THEN w
       ELSE LET w1 == [w EXCEPT !.pths[cmd.path].segments = Splice(@, cmd.index, 1, <<>>)]
                w2 == IF first(w1, cmd.segment) = cmd.point /\ cmd.index > 0
                      THEN setLast(w1, At(w1.pths[cmd.path].segments, cmd.index - 1),
                                   last(w1, cmd.segment))
                      ELSE w1
            IN [w2 EXCEPT !.cmds[c].forward = TRUE]

RemoveSegmentEntities(w, c) == IF w.cmds[c].forward THEN <<>> ELSE w.cmds[c].entities

(***************************************************************************)
(* DragControls                                                            *)
(***************************************************************************)
\* for (let cp of followers) cp.setXY(target.add(cp.subtract(origin)))
RECURSIVE moveFollowers(_, _, _, _, _)
moveFollowers(heap, followers, i, origin, target) ==
    IF i > Len(followers) THEN heap
    ELSE LET cp == followers[i]
             moved == setXY(heap[cp], add(target, subtract(heap[cp], origin)))
         IN moveFollowers([heap EXCEPT ![cp] = moved], followers, i + 1, origin, target)

DragControlsExecute(w, c) ==
    LET cmd == w.cmds[c]
        h1 == moveFollowers(w.ctl, cmd.followers, 1, cmd.from, cmd.to)
    IN [w EXCEPT !.ctl = [h1 EXCEPT ![cmd.main] = setXY(h1[cmd.main], cmd.to)]]

DragControlsUndo(w, c) ==
    LET cmd == w.cmds[c]
        h1 == moveFollowers(w.ctl, cmd.followers, 1, cmd.to, cmd.from)
    IN [w EXCEPT !.ctl = [h1 EXCEPT ![cmd.main] = setXY(h1[cmd.main], cmd.from)]]

DragControlsRedo(w, c) == DragControlsExecute(w, c)

\* a merge that compares the controls by their coordinates
mergeByCoordinates(w, c, latest) ==
    LET this == w.cmds[c]
        command == w.cmds[latest]
    IN IF command.kind # "DragControls"
       THEN [w |-> w, result |-> "throw"]
       ELSE IF Len(this.followers) # Len(command.followers)
       THEN [w |-> w, result |-> "false"]
       ELSE IF \E i \in 1..Len(this.followers) :
                   w.ctl[this.followers[i]] # w.ctl[command.followers[i]]
       THEN [w |-> w, result |-> "false"]
       ELSE IF w.ctl[this.main] # w.ctl[command.main]
       THEN [w |-> w, result |-> "false"]
       ELSE [w |-> [w EXCEPT !.cmds[c].to = command.to], result |-> "true"]

\* merge returns [w, result]; result is "true", "false" or "throw" (a TypeError)
DragControlsMerge(w, c, latest) ==
    LET this == w.cmds[c]
        command == w.cmds[latest]
    IN IF command.kind # "DragControls"
       THEN [w |-> w, result |-> "throw"]     \* command.followers is undefined
       ELSE IF Len(this.followers) # Len(command.followers)
       THEN [w |-> w, result |-> "false"]
       ELSE IF \E i \in 1..Len(this.followers) : this.followers[i] # command.followers[i]
       THEN [w |-> w, result |-> "false"]
       ELSE IF this.main # command.main
       THEN [w |-> w, result |-> "false"]
       ELSE [w |-> [w EXCEPT !.cmds[c].to = command.to], result |-> "true"]

DragControlsEntities(w, c) == CtlEntities(<<w.cmds[c].main>> \o w.cmds[c].followers)

(***************************************************************************)
(* UpdateInstancesProperties and UpdateInteractiveEntities.  A             *)
(* Partial<TTarget> is a function from the keys it holds to their values.  *)
(***************************************************************************)
\* { ...a, ...b }
Spread(a, b) ==
    [k \in (DOMAIN a) \cup (DOMAIN b) |-> IF k \in DOMAIN b THEN b[k] ELSE a[k]]

\* target[key], for the keys x and y of a control
GetKey(v, k) == IF k = "x" THEN v.x ELSE v.y

\* updatePropertiesForTarget: the target afterwards, and the values it held
updateTarget(v, values) ==
    [x |-> IF "x" \in DOMAIN values THEN values["x"] ELSE v.x,
     y |-> IF "y" \in DOMAIN values THEN values["y"] ELSE v.y,
     heading |-> v.heading, end |-> v.end]

previousOfTarget(v, values) == [k \in DOMAIN values |-> GetKey(v, k)]

\* for each target in turn: snapshot, then overwrite
RECURSIVE updateTargets(_, _, _, _, _)
updateTargets(heap, targets, i, valuesAt, acc) ==
    IF i > Len(targets) THEN [heap |-> heap, previous |-> acc]
    ELSE LET t == targets[i]
         IN updateTargets([heap EXCEPT ![t] = updateTarget(heap[t], valuesAt[i])],
                          targets, i + 1, valuesAt,
                          Append(acc, previousOfTarget(heap[t], valuesAt[i])))

UpdateInstancesPropertiesExecute(w, c) ==
    LET cmd == w.cmds[c]
        r == updateTargets(w.ctl, cmd.targets, 1,
                           [i \in 1..Len(cmd.targets) |-> cmd.newValues], <<>>)
    IN [w EXCEPT !.ctl = r.heap,
                 !.cmds[c].previousValue = r.previous,
                 !.cmds[c].hasPreviousValue = TRUE]

UpdateInstancesPropertiesUndo(w, c) ==
    LET cmd == w.cmds[c]
        r == updateTargets(w.ctl, cmd.targets, 1, cmd.previousValue, <<>>)
    IN [w EXCEPT !.ctl = r.heap,
                 !.cmds[c].previousValue = <<>>,
                 !.cmds[c].hasPreviousValue = FALSE]

UpdateInstancesPropertiesRedo(w, c) == UpdateInstancesPropertiesExecute(w, c)

IsUpdateKind(k) == k \in {"UpdateInstancesProperties", "UpdateInteractiveEntities"}

\* a merge in which the snapshot of the later command wins
mergeLatestSnapshot(w, c, latest) ==
    LET this == w.cmds[c]
        command == w.cmds[latest]
        n == Len(this.targets)
        theirs(i) == IF i <= Len(command.previousValue) THEN command.previousValue[i] ELSE <<>>
    IN IF n > 0 /\ ~command.hasPreviousValue
       THEN [w |-> w, result |-> "throw"]
       ELSE [w |-> [w EXCEPT !.cmds[c].previousValue =
                                 [i \in 1..n |-> Spread(this.previousValue[i], theirs(i))],
                             !.cmds[c].newValues =
                                 IF n > 0 THEN Spread(this.newValues, command.newValues) ELSE @],
             result |-> "true"]

UpdateInstancesPropertiesMerge(w, c, latest) ==
    LET this == w.cmds[c]
        command == w.cmds[latest]
        n == Len(this.targets)
        theirs(i) == IF i <= Len(command.previousValue) THEN command.previousValue[i] ELSE <<>>
    IN IF n > 0 /\ ~command.hasPreviousValue
       THEN [w |-> w, result |-> "throw"]     \* latest.previousValue is undefined
       ELSE [w |-> [w EXCEPT !.cmds[c].previousValue =
                                 [i \in 1..n |-> Spread(theirs(i), this.previousValue[i])],
                             !.cmds[c].newValues =
                                 IF n > 0 THEN Spread(this.newValues, command.newValues) ELSE @],
             result |-> "true"]

UpdateInteractiveEntitiesEntities(w, c) == CtlEntities(w.cmds[c].targets)

(***************************************************************************)
(* Keyframes                                                               *)
(***************************************************************************)
\* speedProfiles.sort((a, b) => a.xPos - b.xPos), a stable sort
RECURSIVE insertByXPos(_, _, _)
insertByXPos(heap, sorted, k) ==
    IF sorted = <<>> THEN <<k>>
    ELSE IF heap[sorted[Len(sorted)]].xPos <= heap[k].xPos THEN Append(sorted, k)
    ELSE Append(insertByXPos(heap, SubSeq(sorted, 1, Len(sorted) - 1), k), sorted[Len(sorted)])

RECURSIVE sortByXPos(_, _)
sortByXPos(heap, list) ==
    IF list = <<>> THEN <<>>
    ELSE insertByXPos(heap, sortByXPos(heap, SubSeq(list, 1, Len(list) - 1)), list[Len(list)])

\* push(kf) then sort
pushSorted(w, s, k) ==
    [w EXCEPT !.segs[s].speedProfiles = sortByXPos(w.kfs, Append(@, k))]

AddKeyframeExecute(w, c) ==
    LET cmd == w.cmds[c]
        w1 == [w EXCEPT !.kfs = Append(@, [xPos |-> cmd.pos.xPos, yPos |-> cmd.pos.yPos])]
        k == Len(w1.kfs)
    IN pushSorted([w1 EXCEPT !.cmds[c].kf = k], cmd.pos.segment, k)

AddKeyframeUndo(w, c) ==
    LET cmd == w.cmds[c]
    IN [w EXCEPT !.segs[cmd.pos.segment].speedProfiles =
                     Splice(@, IndexOf(@, cmd.kf), 1, <<>>)]

AddKeyframeRedo(w, c) == pushSorted(w, w.cmds[c].pos.segment, w.cmds[c].kf)

MoveKeyframeRemoveKeyframe(w, c, pos) ==
    LET idx == IndexOf(w.segs[pos.segment].speedProfiles, w.cmds[c].kf)
    IN IF idx = -1 THEN w
       ELSE [w EXCEPT !.segs[pos.segment].speedProfiles = Splice(@, idx, 1, <<>>)]

MoveKeyframeAddKeyframe(w, c, pos) ==
    LET k == w.cmds[c].kf
    IN pushSorted([w EXCEPT !.kfs[k] = [xPos |-> pos.xPos, yPos |-> pos.yPos]],
                  pos.segment, k)

\* the first segment of the path that holds the keyframe, 0 when none does
holderOf(w, p, k) ==
    LET segments == w.pths[p].segments
        hits == {i \in 1..Len(segments) : IndexOf(w.segs[segments[i]].speedProfiles, k) # -1}
    IN IF hits = {} THEN 0 ELSE segments[CHOOSE i \in hits : \A j \in hits : i <= j]

MoveKeyframeExecute(w, c) ==
    LET cmd == w.cmds[c]
        segment == holderOf(w, cmd.path, cmd.kf)
        w1 == IF segment = 0 THEN w
              ELSE [w EXCEPT !.segs[segment].speedProfiles =
                                 Splice(@, IndexOf(@, cmd.kf), 1, <<>>),
                             !.cmds[c].oldPos = [segment |-> segment,
                                                 xPos |-> w.kfs[cmd.kf].xPos,
                                                 yPos |-> w.kfs[cmd.kf].yPos]]
    IN MoveKeyframeAddKeyframe(w1, c, cmd.newPos)

\* an undo that leaves the keyframe in the list it was moved to
moveUndoKeepingTarget(w, c) ==
    LET cmd == w.cmds[c]
    IN IF cmd.oldPos = NoPos THEN w
       ELSE MoveKeyframeAddKeyframe(w, c, cmd.oldPos)

MoveKeyframeUndo(w, c) ==
    LET cmd == w.cmds[c]
    IN IF cmd.oldPos = NoPos THEN w
       ELSE MoveKeyframeAddKeyframe(MoveKeyframeRemoveKeyframe(w, c, cmd.newPos), c, cmd.oldPos)

MoveKeyframeRedo(w, c) ==
    LET cmd == w.cmds[c]
    IN IF cmd.oldPos = NoPos THEN w
       ELSE MoveKeyframeAddKeyframe(MoveKeyframeRemoveKeyframe(w, c, cmd.oldPos), c, cmd.newPos)

MoveKeyframeMerge(w, c, latest) ==
    IF w.cmds[latest].kind # "MoveKeyframe" \/ w.cmds[latest].kf # w.cmds[c].kf
    THEN [w |-> w, result |-> "false"]
    ELSE [w |-> [w EXCEPT !.cmds[c].newPos = w.cmds[latest].newPos], result |-> "true"]

RemoveKeyframeExecute(w, c) ==
    LET cmd == w.cmds[c]
        segment == holderOf(w, cmd.path, cmd.kf)
    IN IF segment = 0 THEN w
       ELSE [w EXCEPT !.segs[segment].speedProfiles = Splice(@, IndexOf(@, cmd.kf), 1, <<>>),
                      !.cmds[c].segment = segment,
                      !.cmds[c].oldIdx = IndexOf(w.segs[segment].speedProfiles, cmd.kf)]

RemoveKeyframeUndo(w, c) ==
    LET cmd == w.cmds[c]
    IN IF cmd.segment = Undefined \/ cmd.oldIdx = -1 THEN w
       ELSE [w EXCEPT !.segs[cmd.segment].speedProfiles = Splice(@, cmd.oldIdx, 0, <<cmd.kf>>)]

RemoveKeyframeRedo(w, c) ==
    LET cmd == w.cmds[c]
    IN IF cmd.segment = Undefined \/ cmd.oldIdx = -1 THEN w
       ELSE [w EXCEPT !.segs[cmd.segment].speedProfiles = Splice(@, cmd.oldIdx, 1, <<>>)]

(***************************************************************************)
(* AddPath and RemovePath                                                  *)
(***************************************************************************)
AddPathExecute(w, c) ==
    [w EXCEPT !.paths = Append(@, w.cmds[c].path), !.cmds[c].forward = TRUE]

AddPathUndo(w, c) ==
    [w EXCEPT !.paths = Splice(@, IndexOf(@, w.cmds[c].path), 1, <<>>),
              !.cmds[c].forward = FALSE]

AddPathRedo(w, c) ==
    [w EXCEPT !.paths = Append(@, w.cmds[c].path), !.cmds[c].forward = TRUE]

PathAndControls(w, p) ==
    <<PathEntity(p)>> \o CtlEntities(pathControls(w, w.pths[p].segments, 1))

AddPathEntities(w, c) ==
    IF w.cmds[c].forward THEN PathAndControls(w, w.cmds[c].path) ELSE <<>>

RemovePathExecute(w, c) ==
    LET index == IndexOf(w.paths, w.cmds[c].path)
    IN [w EXCEPT !.cmds[c].index = index,
                 !.paths = Splice(@, index, 1, <<>>),
                 !.cmds[c].forward = TRUE]

RemovePathUndo(w, c) ==
    [w EXCEPT !.paths = Splice(@, w.cmds[c].index, 0, <<w.cmds[c].path>>),
              !.cmds[c].forward = FALSE]

RemovePathRedo(w, c) ==
    [w EXCEPT !.paths = Splice(@, w.cmds[c].index, 1, <<>>), !.cmds[c].forward = TRUE]

RemovePathEntities(w, c) ==
    IF w.cmds[c].forward THEN <<>> ELSE PathAndControls(w, w.cmds[c].path)

(***************************************************************************)
(* RemovePathTreeItems and InsertPaths, the commands of the clipboard.     *)
(* Their classes are imported by core/Clipboard.ts from core/Command; the  *)
(* list of paths is all they change here: the paths among the items leave  *)
(* the list and come back on undo, the inserted paths enter the list at    *)
(* idx and leave it on undo.  What the removal of a control does to its    *)
(* segment is not described.                                               *)
(***************************************************************************)
RemovePathTreeItemsExecute(w, c) ==
    LET gone == {w.cmds[c].items[i].id : i \in {j \in 1..Len(w.cmds[c].items) :
                                                 w.cmds[c].items[j].t = "path"}}
        kept(p) == p \notin gone
    IN [w EXCEPT !.cmds[c].original = w.paths, !.paths = SelectSeq(@, kept)]

RemovePathTreeItemsUndo(w, c) == [w EXCEPT !.paths = w.cmds[c].original]

RemovePathTreeItemsRedo(w, c) == RemovePathTreeItemsExecute(w, c)

InsertPathsExecute(w, c) ==
    [w EXCEPT !.paths = Splice(@, w.cmds[c].idx, 0, w.cmds[c].inserting)]

InsertPathsUndo(w, c) ==
    LET kept(p) == p \notin Range(w.cmds[c].inserting)
    IN [w EXCEPT !.paths = SelectSeq(@, kept)]

InsertPathsRedo(w, c) == InsertPathsExecute(w, c)

(***************************************************************************)
(* Dynamic dispatch on the class of a command.                             *)
(***************************************************************************)
CommandExecute(w, c) ==
    LET k == w.cmds[c].kind
    IN CASE IsUpdateKind(k) -> UpdateInstancesPropertiesExecute(w, c)
         [] k = "AddSegment" -> AddSegmentExecute(w, c)
         [] k = "ConvertSegment" -> ConvertSegmentExecute(w, c)
         [] k = "SplitSegment" -> SplitSegmentExecute(w, c)
         [] k = "RemoveSegment" -> RemoveSegmentExecute(w, c)
         [] k = "DragControls" -> DragControlsExecute(w, c)
         [] k = "AddKeyframe" -> AddKeyframeExecute(w, c)
         [] k = "MoveKeyframe" -> MoveKeyframeExecute(w, c)
         [] k = "RemoveKeyframe" -> RemoveKeyframeExecute(w, c)
         [] k = "AddPath" -> AddPathExecute(w, c)
         [] k = "RemovePath" -> RemovePathExecute(w, c)
         [] k = "RemovePathTreeItems" -> RemovePathTreeItemsExecute(w, c)
         [] k = "InsertPaths" -> InsertPathsExecute(w, c)

CommandUndo(w, c) ==
    LET k == w.cmds[c].kind
    IN CASE IsUpdateKind(k) -> UpdateInstancesPropertiesUndo(w, c)
         [] k = "AddSegment" -> AddSegmentUndo(w, c)
         [] k = "ConvertSegment" -> ConvertSegmentUndo(w, c)
         [] k = "SplitSegment" -> SplitSegmentUndo(w, c)
         [] k = "RemoveSegment" -> RemoveSegmentUndo(w, c)
         [] k = "DragControls" -> DragControlsUndo(w, c)
         [] k = "AddKeyframe" -> AddKeyframeUndo(w, c)
         [] k = "MoveKeyframe" -> MoveKeyframeUndo(w, c)
         [] k = "RemoveKeyframe" -> RemoveKeyframeUndo(w, c)
         [] k = "AddPath" -> AddPathUndo(w, c)
         [] k = "RemovePath" -> RemovePathUndo(w, c)
         [] k = "RemovePathTreeItems" -> RemovePathTreeItemsUndo(w, c)
         [] k = "InsertPaths" -> InsertPathsUndo(w, c)

CommandRedo(w, c) ==
    LET k == w.cmds[c].kind
    IN CASE IsUpdateKind(k) -> UpdateInstancesPropertiesRedo(w, c)
         [] k = "AddSegment" -> AddSegmentRedo(w, c)
         [] k = "ConvertSegment" -> ConvertSegmentRedo(w, c)
         [] k = "SplitSegment" -> SplitSegmentRedo(w, c)
         [] k = "RemoveSegment" -> RemoveSegmentRedo(w, c)
         [] k = "DragControls" -> DragControlsRedo(w, c)
         [] k = "AddKeyframe" -> AddKeyframeRedo(w, c)
         [] k = "MoveKeyframe" -> MoveKeyframeRedo(w, c)
         [] k = "RemoveKeyframe" -> RemoveKeyframeRedo(w, c)
         [] k = "AddPath" -> AddPathRedo(w, c)
         [] k = "RemovePath" -> RemovePathRedo(w, c)
         [] k = "RemovePathTreeItems" -> RemovePathTreeItemsRedo(w, c)
         [] k = "InsertPaths" -> InsertPathsRedo(w, c)

\* this.merge(latest) of the command c
CommandMerge(w, c, latest) ==
    LET k == w.cmds[c].kind
    IN CASE IsUpdateKind(k) -> UpdateInstancesPropertiesMerge(w, c, latest)
         [] k = "DragControls" -> DragControlsMerge(w, c, latest)
         [] k = "MoveKeyframe" -> MoveKeyframeMerge(w, c, latest)

\* the getter entities of the command c
CommandEntities(w, c) ==
    LET k == w.cmds[c].kind
    IN CASE k = "UpdateInteractiveEntities" -> UpdateInteractiveEntitiesEntities(w, c)
         [] k = "AddSegment" -> AddSegmentEntities(w, c)
         [] k = "ConvertSegment" -> ConvertSegmentEntities(w, c)
         [] k = "SplitSegment" -> SplitSegmentEntities(w, c)
         [] k = "RemoveSegment" -> RemoveSegmentEntities(w, c)
         [] k = "DragControls" -> DragControlsEntities(w, c)
         [] k = "AddPath" -> AddPathEntities(w, c)
         [] k = "RemovePath" -> RemovePathEntities(w, c)

\* 'merge' in object
isMergeable(k) == IsUpdateKind(k) \/ k \in {"DragControls", "MoveKeyframe"}

\* 'entities' in object
isInteractiveEntitiesCommand(k) ==
    k \in {"UpdateInteractiveEntities", "AddSegment", "ConvertSegment", "SplitSegment",
           "RemoveSegment", "DragControls", "AddPath", "RemovePath"}

\* typeof (command): every command is an object
typeOf(k) == "object"

(***************************************************************************)
(* CommandHistory.  h is the record of its four fields; a handler returns  *)
(* the world and the history afterwards, the calls it made on commands     *)
(* and the selection it published.                                         *)
(***************************************************************************)
Hist == [lastExecution |-> lastExecution, history |-> history,
         redoHistory |-> redoHistory, savedCommand |-> savedCommand]

Call(m, c) == [m |-> m, c |-> c]

commit(h) ==
    IF h.lastExecution # None
    THEN [h EXCEPT !.history = Append(@, h.lastExecution.command), !.lastExecution = None]
    ELSE h

\* the condition of execute that lets the pending command try the merge
mergeCandidate(w, h, exe) ==
    /\ exe.title = h.lastExecution.title
    /\ isMergeable(w.cmds[exe.command].kind)
    /\ isMergeable(w.cmds[h.lastExecution.command].kind)
    /\ typeOf(w.cmds[exe.command].kind) = typeOf(w.cmds[h.lastExecution.command].kind)
    /\ exe.time - h.lastExecution.time < exe.mergeTimeout

\* an execute that keeps the undone commands
keptRedoHistory(h) == h.redoHistory

\* this.redoHistory = [] at the end of execute
clearedRedoHistory(h) == <<>>

\* execute after the condition: m is what the merge call did ("none": no call).
\* A TypeError thrown by merge leaves execute at once: the command has run,
\* the history is as it was, and the caller goes on.
executeOutcome(h, exe, m) ==
    IF m.result = "throw"
    THEN [w |-> [m.w EXCEPT !.crashed = TRUE], h |-> h, merged |-> FALSE,
          result |-> "throw",
          calls |-> <<Call("execute", exe.command), Call("merge", h.lastExecution.command)>>]
    ELSE IF m.result = "true"
    THEN [w |-> m.w,
          h |-> [h EXCEPT !.lastExecution.time = exe.time,
                          !.redoHistory = clearedRedoHistory(h)],
          merged |-> TRUE, result |-> "true",
          calls |-> <<Call("execute", exe.command), Call("merge", h.lastExecution.command)>>]
    ELSE [w |-> m.w,
          h |-> [commit(h) EXCEPT !.lastExecution = exe,
                                  !.redoHistory = clearedRedoHistory(h)],
          merged |-> FALSE, result |-> m.result,
          calls |-> <<Call("execute", exe.command)>> \o
                    (IF m.result = "none" THEN <<>>
                     ELSE <<Call("merge", h.lastExecution.command)>>)]

\* execute after command.execute(): w1 is the world the command left
executeMerge(w1, h, exe) ==
    executeOutcome(h, exe,
                   IF h.lastExecution # None /\ mergeCandidate(w1, h, exe)
                   THEN CommandMerge(w1, h.lastExecution.command, exe.command)
                   ELSE [w |-> w1, result |-> "none"])

HistoryExecute(w, h, title, c, time, mergeTimeout) ==
    executeMerge(CommandExecute(w, c), h,
                 [title |-> title, command |-> c, time |-> time,
                  mergeTimeout |-> mergeTimeout])

\* app.setSelected(command.entities) when the command has entities
published(w, c, sel) ==
    IF isInteractiveEntitiesCommand(w.cmds[c].kind) THEN CommandEntities(w, c) ELSE sel

publishCalls(w, c) ==
    IF isInteractiveEntitiesCommand(w.cmds[c].kind) THEN <<Call("setSelected", c)>> ELSE <<>>

\* what undo and redo return once the command has run and left the world w1
afterCommand(w1, h, m, command, sel) ==
    [w |-> w1, h |-> h, calls |-> <<Call(m, command)>> \o publishCalls(w1, command),
     selected |-> published(w1, command, sel)]

\* an undo that does not commit the pending command first
undoWithoutCommit(w, h, sel) ==
    IF Len(h.history) > 0
    THEN LET command == h.history[Len(h.history)]
         IN afterCommand(CommandUndo(w, command),
                         [h EXCEPT !.history = Pop(@), !.redoHistory = Append(@, command)],
                         "undo", command, sel)
    ELSE [w |-> w, h |-> h, calls |-> <<>>, selected |-> sel]

\* an undo that calls redo() of the command
undoCallingRedo(w, h, sel) ==
    LET h1 == commit(h)
    IN IF Len(h1.history) > 0
       THEN LET command == h1.history[Len(h1.history)]
            IN afterCommand(CommandRedo(w, command),
                            [h1 EXCEPT !.history = Pop(@), !.redoHistory = Append(@, command)],
                            "redo", command, sel)
       ELSE [w |-> w, h |-> h1, calls |-> <<>>, selected |-> sel]

\* an undo that clears the selection when there is nothing to undo
undoClearingSelection(w, h, sel) ==
    LET h1 == commit(h)
    IN IF Len(h1.history) > 0
       THEN LET command == h1.history[Len(h1.history)]
            IN afterCommand(CommandUndo(w, command),
                            [h1 EXCEPT !.history = Pop(@), !.redoHistory = Append(@, command)],
                            "undo", command, sel)
       ELSE [w |-> w, h |-> h1, calls |-> <<>>, selected |-> <<>>]

HistoryUndo(w, h, sel) ==
    LET h1 == commit(h)
    IN IF Len(h1.history) > 0
       THEN LET command == h1.history[Len(h1.history)]
            IN afterCommand(CommandUndo(w, command),
                            [h1 EXCEPT !.history = Pop(@), !.redoHistory = Append(@, command)],
                            "undo", command, sel)
       ELSE [w |-> w, h |-> h1, calls |-> <<>>, selected |-> sel]

\* a redo that takes the command undone first
redoOldest(w, h, sel) ==
    IF Len(h.redoHistory) > 0
    THEN LET command == h.redoHistory[1]
         IN afterCommand(CommandRedo(w, command),
                         [h EXCEPT !.redoHistory = Tail(@), !.history = Append(@, command)],
                         "redo", command, sel)
    ELSE [w |-> w, h |-> h, calls |-> <<>>, selected |-> sel]

HistoryRedo(w, h, sel) ==
    IF Len(h.redoHistory) > 0
    THEN LET command == h.redoHistory[Len(h.redoHistory)]
         IN afterCommand(CommandRedo(w, command),
                         [h EXCEPT !.redoHistory = Pop(@), !.history = Append(@, command)],
                         "redo", command, sel)
    ELSE [w |-> w, h |-> h, calls |-> <<>>, selected |-> sel]

HistoryClearHistory(h) ==
    [lastExecution |-> None, history |-> <<>>, redoHistory |-> <<>>,
     savedCommand |-> Undefined]

\* a save that marks the first command of the done stack
saveFirstCommand(h) ==
    LET h1 == commit(h)
    IN [h1 EXCEPT !.savedCommand = At(h1.history, 0)]

\* a save that marks the top of the committed commands only
saveWithoutCommit(h) ==
    [h EXCEPT !.savedCommand = At(h.history, Len(h.history) - 1)]

HistorySave(h) ==
    LET h1 == commit(h)
    IN [h1 EXCEPT !.savedCommand = At(h1.history, Len(h1.history) - 1)]

\* a dirty check that reads the committed commands only
isModifiedWithoutCommit(h) ==
    [h |-> h, ret |-> h.savedCommand # At(h.history, Len(h.history) - 1)]

\* isModified: the history afterwards and the value returned
HistoryIsModified(h) ==
    LET h1 == commit(h)
    IN [h |-> h1, ret |-> h1.savedCommand # At(h1.history, Len(h1.history) - 1)]

(***************************************************************************)
(* Observers.  They record what a handler did and do not influence it.     *)
(***************************************************************************)
DocOf(w) == [ctl |-> w.ctl, segs |-> w.segs, kfs |-> w.kfs, pths |-> w.pths,
             paths |-> w.paths]

NoDoc == [ctl |-> <<>>, segs |-> <<>>, kfs |-> <<>>, pths |-> <<>>, paths |-> <<>>]

\* snap follows the last executed command through its undo and redo (phase,
\* the document before and after it), whether a save is still the last change
\* of the history (saved), a run of k undos followed by j redos with the
\* done stack the run started from (base), and the done stack as the last
\* save() left it, empty when no save() came after the last clearHistory()
\* (savedDone)
Idle == [phase |-> "idle", pre |-> NoDoc, post |-> NoDoc, merged |-> FALSE,
         saved |-> "unknown", k |-> 0, j |-> 0, base |-> <<>>, savedDone |-> <<>>]

\* the done stack as undo sees it: the committed commands and the pending one
Done(h) == commit(h).history

\* op describes the last handler: its name, the command it worked on, the
\* outcome (merged, the value isModified returned, the title given to execute
\* and what the merge predicate did), the sizes of the two stacks before, and
\* whether a command was pending before
Op(name, c, merged, ret) ==
    [name |-> name, cmd |-> c, merged |-> merged, ret |-> ret, title |-> "",
     result |-> "none", done |-> Len(Done(Hist)), undone |-> Len(redoHistory),
     pending |-> lastExecution # None]

\* life after the calls of a handler: execute() and redo() leave the effect of
\* a command done, undo() leaves it undone
RECURSIVE Lived(_, _, _)
Lived(l, cs, i) ==
    IF i > Len(cs) THEN l
    ELSE LET x == cs[i]
             l1 == IF x.m = "execute" THEN Append(l, "done")
                   ELSE IF x.m = "undo" THEN [l EXCEPT ![x.c] = "undone"]
                   ELSE IF x.m = "redo" THEN [l EXCEPT ![x.c] = "done"]
                   ELSE l
         IN Lived(l1, cs, i + 1)

\* a path holds undefined in place of a segment, or a segment has no control:
\* the handlers that walk the path then end in a TypeError part of the way
\* through, and the model follows the document no further
Corrupt(w) ==
    \/ \E p \in 1..Len(w.pths) : Undefined \in Range(w.pths[p].segments)
    \/ \E s \in 1..Len(w.segs) : w.segs[s].controls = <<>>

Broken == Corrupt(World)

SetWorld(w) ==
    /\ ctl' = w.ctl
    /\ segs' = w.segs
    /\ kfs' = w.kfs
    /\ pths' = w.pths
    /\ paths' = w.paths
    /\ cmds' = w.cmds
    /\ crashed' = w.crashed

SetHist(h) ==
    /\ lastExecution' = h.lastExecution
    /\ history' = h.history
    /\ redoHistory' = h.redoHistory
    /\ savedCommand' = h.savedCommand

(***************************************************************************)
(* The callers: each constructs a command and hands it to                  *)
(* CommandHistory.execute.  Date.now() advances by a pause; the pause      *)
(* matters only when the pending command can try a merge.                  *)
(***************************************************************************)
Titles == {"T1", "T2"}

Gaps(title, kind) ==
    IF lastExecution # None /\ title = lastExecution.title /\ isMergeable(kind)
       /\ isMergeable(cmds[lastExecution.command].kind)
    THEN {ShortGap, LongGap} ELSE {ShortGap}

Touched(saved) == IF saved = "unknown" THEN "unknown" ELSE "dirty"

\* history.execute(title, command) on a command just constructed in world w0
\* history.execute(title, command) by a handler that leaves the click record u,
\* the clipboard cb and the selection sel
RunFrom(title, command, w0, max, u, cb, sel) ==
    /\ ~Broken
    /\ Len(cmds) < max
    /\ \E gap \in Gaps(title, command.kind), c \in {Len(cmds) + 1} :
        \E r \in {HistoryExecute([w0 EXCEPT !.cmds = Append(@, command)], Hist, title, c,
                                  now + gap, MergeTimeout)} :
           /\ SetWorld(r.w)
           /\ SetHist(r.h)
           /\ now' = now + gap
           /\ selected' = sel
           /\ op' = [Op("execute", c, r.merged, FALSE) EXCEPT !.title = title,
                                                              !.result = r.result]
           /\ calls' = r.calls
           /\ life' = Lived(life, r.calls, 1)
           /\ clip' = cb
           /\ kn' = kn
           /\ ui' = u
           /\ vx' = vx
           /\ sm' = sm
           /\ snap' = IF r.result = "throw" THEN [Idle EXCEPT !.savedDone = snap.savedDone]
                      ELSE IF r.merged
                      THEN [snap EXCEPT !.post = DocOf(r.w), !.merged = TRUE,
                                        !.saved = Touched(snap.saved)]
                      ELSE [Idle EXCEPT !.phase = "executed", !.pre = DocOf(World),
                                        !.post = DocOf(r.w),
                                        !.saved = Touched(snap.saved),
                                        !.savedDone = snap.savedDone]

RunWith(title, command, w0, max, u) == RunFrom(title, command, w0, max, u, clip, selected)

Run(title, command, w0, max) == RunWith(title, command, w0, max, ui)

\* the points a caller creates for a new end of a segment
NewEndPoints == {EndPointControl(30 * Milli, 20 * Milli, 0)}

\* where a drag ends: the pointer position, to three decimals
DragTargets == {Control(10004, 30 * Milli), Control(25 * Milli, 5 * Milli)}

\* the controls a caller drags or edits
Handles == 1..Min(Len(ctl), MaxHandles)

NewValues == {("x" :> 7 * Milli), ("x" :> 8 * Milli @@ "y" :> 6 * Milli)}

TargetLists == {<<1>>, <<1, 2>>}

\* the title of an update names its targets
UpdateTitle(targets) == IF targets = <<1>> THEN "T1" ELSE "T2"

KeyframeXs == {250, 750}

\* the title of every keyframe move
MoveTitle == "T1"

EndPoints == {c \in 1..Len(ctl) : ctl[c].end}

ExecUpdate(max) ==
    \E kind \in {"UpdateInstancesProperties", "UpdateInteractiveEntities"},
       targets \in TargetLists, values \in NewValues :
        Run(UpdateTitle(targets),
            [BlankCommand EXCEPT !.kind = kind, !.targets = targets, !.newValues = values],
            World, max)

ExecAddSegment(max) ==
    \E path \in Range(paths), variant \in {"LINEAR", "CURVE"}, pt \in NewEndPoints :
        LET w0 == newControl(World, pt)
        IN Run("AddSegment",
               [BlankCommand EXCEPT !.kind = "AddSegment", !.path = path,
                                    !.end = Len(w0.ctl), !.variant = variant],
               w0, max)

ExecConvertSegment(max) ==
    \E path \in Range(paths), segment \in 1..Len(segs), variant \in {"LINEAR", "CURVE"} :
        Run("ConvertSegment",
            [BlankCommand EXCEPT !.kind = "ConvertSegment", !.path = path,
                                 !.segment = segment, !.variant = variant],
            World, max)

ExecSplitSegment(max) ==
    \E path \in Range(paths), segment \in 1..Len(segs), pt \in NewEndPoints :
        LET w0 == newControl(World, pt)
        IN Run("SplitSegment",
               [BlankCommand EXCEPT !.kind = "SplitSegment", !.path = path,
                                    !.originalSegment = segment, !.point = Len(w0.ctl)],
               w0, max)

ExecRemoveSegment(max) ==
    \E path \in Range(paths), point \in EndPoints :
        Run("RemoveSegment",
            [BlankCommand EXCEPT !.kind = "RemoveSegment", !.path = path, !.point = point],
            World, max)

\* the caller passes the position of the dragged control as from
ExecDragControls(max) ==
    \E title \in Titles, main \in Handles, to \in DragTargets :
        \E followers \in {<<>>} \cup {<<f>> : f \in Handles \ {main}} :
            Run(title,
                [BlankCommand EXCEPT !.kind = "DragControls", !.main = main,
                                     !.from = Control(ctl[main].x, ctl[main].y),
                                     !.to = to, !.followers = followers],
                World, max)

\* a drag of a control with two followers, in either order
ExecDragGroup(max) ==
    \E title \in Titles, main \in 1..Min(Len(ctl), MaxGroup), to \in DragTargets :
        \E f \in 1..Min(Len(ctl), MaxGroup), g \in 1..Min(Len(ctl), MaxGroup) :
            /\ Cardinality({main, f, g}) = 3
            /\ Run(title,
                   [BlankCommand EXCEPT !.kind = "DragControls", !.main = main,
                                        !.from = Control(ctl[main].x, ctl[main].y),
                                        !.to = to, !.followers = <<f, g>>],
                   World, max)

ExecAddKeyframe(max) ==
    /\ Len(kfs) < MaxKfs
    /\ \E path \in Range(paths) :
        \E segment \in Range(pths[path].segments), x \in KeyframeXs :
            Run("AddKeyframe",
                [BlankCommand EXCEPT !.kind = "AddKeyframe", !.path = path,
                                     !.pos = [segment |-> segment, xPos |-> x, yPos |-> 500]],
                World, max)

ExecMoveKeyframe(max) ==
    \E path \in Range(paths), kf \in 1..Len(kfs) :
        \E segment \in Range(pths[path].segments), x \in KeyframeXs :
            Run(MoveTitle,
                [BlankCommand EXCEPT !.kind = "MoveKeyframe", !.path = path, !.kf = kf,
                                     !.newPos = [segment |-> segment, xPos |-> x, yPos |-> 800]],
                World, max)

ExecRemoveKeyframe(max) ==
    \E path \in Range(paths), kf \in 1..Len(kfs) :
        Run("RemoveKeyframe",
            [BlankCommand EXCEPT !.kind = "RemoveKeyframe", !.path = path, !.kf = kf],
            World, max)

\* the caller constructs a path of one line: new Path(new Segment(start, [], end))
ExecAddPath(max) ==
    \E pt \in NewEndPoints :
        LET w1 == newControl(newControl(World, EndPointControl(0, 0, 0)), pt)
            w2 == newSegment(w1, Len(w1.ctl) - 1, <<>>, Len(w1.ctl))
            w0 == [w2 EXCEPT !.pths = Append(@, [segments |-> <<Len(w2.segs)>>])]
        IN Run("AddPath", [BlankCommand EXCEPT !.kind = "AddPath", !.path = Len(w0.pths)],
               w0, max)

ExecRemovePath(max) ==
    \E path \in 1..Len(pths) :
        Run("RemovePath", [BlankCommand EXCEPT !.kind = "RemovePath", !.path = path],
            World, max)

(***************************************************************************)
(* The other handlers of CommandHistory.                                   *)
(***************************************************************************)
Undo ==
    /\ ~Broken
    /\ \E r \in {HistoryUndo(World, Hist, selected)} :
          /\ SetWorld(r.w)
          /\ SetHist(r.h)
          /\ selected' = r.selected
          /\ calls' = r.calls
          /\ life' = Lived(life, r.calls, 1)
          /\ clip' = clip
          /\ kn' = kn
          /\ ui' = ui
          /\ vx' = vx
          /\ sm' = sm
          /\ op' = Op("undo", IF r.calls = <<>> THEN 0 ELSE r.calls[1].c, FALSE, FALSE)
          /\ snap' = IF r.calls = <<>> THEN snap
                     ELSE LET run == IF snap.j = 0 /\ snap.k > 0
                                     THEN [snap EXCEPT !.k = @ + 1, !.saved = "unknown"]
                                     ELSE [snap EXCEPT !.k = 1, !.j = 0, !.saved = "unknown",
                                                       !.base = Done(Hist)]
                          IN IF snap.phase = "executed" THEN [run EXCEPT !.phase = "undone"]
                             ELSE [run EXCEPT !.phase = "idle", !.pre = NoDoc,
                                              !.post = NoDoc, !.merged = FALSE]
    /\ now' = now

Redo ==
    /\ ~Broken
    /\ \E r \in {HistoryRedo(World, Hist, selected)} :
          /\ SetWorld(r.w)
          /\ SetHist(r.h)
          /\ selected' = r.selected
          /\ calls' = r.calls
          /\ life' = Lived(life, r.calls, 1)
          /\ clip' = clip
          /\ kn' = kn
          /\ ui' = ui
          /\ vx' = vx
          /\ sm' = sm
          /\ op' = Op("redo", IF r.calls = <<>> THEN 0 ELSE r.calls[1].c, FALSE, FALSE)
          /\ snap' = IF r.calls = <<>> THEN snap
                     ELSE LET run == IF snap.j < snap.k
                                     THEN [snap EXCEPT !.j = @ + 1, !.saved = "unknown"]
                                     ELSE [snap EXCEPT !.k = 0, !.j = 0, !.saved = "unknown",
                                                       !.base = <<>>]
                          IN IF snap.phase = "undone" THEN [run EXCEPT !.phase = "redone"]
                             ELSE [run EXCEPT !.phase = "idle", !.pre = NoDoc,
                                              !.post = NoDoc, !.merged = FALSE]
    /\ now' = now

Commit ==
    /\ ~Broken
    /\ SetHist(commit(Hist))
    /\ op' = Op("commit", 0, FALSE, FALSE)
    /\ calls' = <<>>
    /\ UNCHANGED <<ctl, segs, kfs, pths, paths, cmds, crashed, selected, now, snap, life,
                   clip, kn, ui, vx, sm>>

Save ==
    /\ ~Broken
    /\ SetHist(HistorySave(Hist))
    /\ op' = Op("save", 0, FALSE, FALSE)
    /\ calls' = <<>>
    /\ snap' = [snap EXCEPT !.saved = "clean", !.savedDone = history']
    /\ UNCHANGED <<ctl, segs, kfs, pths, paths, cmds, crashed, selected, now, life, clip, kn, ui, vx, sm>>

IsModified ==
    /\ ~Broken
    /\ \E r \in {HistoryIsModified(Hist)} :
          /\ SetHist(r.h)
          /\ op' = Op("isModified", 0, FALSE, r.ret)
    /\ calls' = <<>>
    /\ UNCHANGED <<ctl, segs, kfs, pths, paths, cmds, crashed, selected, now, snap, life,
                   clip, kn, ui, vx, sm>>

ClearHistory ==
    /\ ~Broken
    /\ SetHist(HistoryClearHistory(Hist))
    /\ op' = Op("clearHistory", 0, FALSE, FALSE)
    /\ calls' = <<>>
    /\ snap' = Idle
    /\ UNCHANGED <<ctl, segs, kfs, pths, paths, cmds, crashed, selected, now, life, clip, kn, ui, vx, sm>>

(***************************************************************************)
(* AppClipboard (src/src/core/Clipboard.ts) in a window that has a         *)
(* BroadcastChannel.  A JavaScript value that can arrive on the channel is *)
(* a record: js is its kind, type the value of its property "type"         *)
(* ("undefined" when it has none), nonce tells two messages apart.         *)
(***************************************************************************)
AppFormat == "F1"       \* app.format.getName()
AppUol == "cm"          \* app.gc.uol

JsUndefined == [js |-> "undefined", type |-> "undefined", format |-> "", uol |-> "",
                body |-> <<>>, nonce |-> 0]

JsNull == [JsUndefined EXCEPT !.js = "null"]

\* typeof data
typeofJs(data) == IF data.js = "null" THEN "object" ELSE data.js

\* data.type: a TypeError on null and undefined, undefined on a primitive
propertyType(data) ==
    IF data.js \in {"null", "undefined"} THEN "throw"
    ELSE IF data.js = "object" THEN data.type
    ELSE "undefined"

\* a type guard that reads data.type of every value of type "object"
guardWithoutNullCheck(data, type) ==
    IF typeofJs(data) # "object" THEN "false"
    ELSE IF propertyType(data) = "throw" THEN "throw"
    ELSE IF propertyType(data) = type THEN "true" ELSE "false"

\* typeof data === "object" && data !== null && data.type === type
typeGuard(data, type) ==
    IF typeofJs(data) # "object" THEN "false"
    ELSE IF data.js = "null" THEN "false"
    ELSE IF propertyType(data) = "throw" THEN "throw"
    ELSE IF propertyType(data) = type THEN "true" ELSE "false"

isCopyPathMessage(data) == typeGuard(data, "COPY_PATHS")

isCopyControlsMessage(data) == typeGuard(data, "COPY_CONTROLS")

\* The uid of an object.  An object of the loaded document has the uid its
\* constructor gave it, told apart by its place in the heap; the clipboard
\* keeps the uid of every object it has written one to, and counts the
\* calls of makeId.
LoadedUid(id) == [by |-> "constructor", n |-> id]

uidOf(uids, id) == IF id <= Len(uids) THEN uids[id] ELSE LoadedUid(id)

\* object.uid = uid
setUid(uids, id, uid) ==
    [i \in 1..Max(Len(uids), id) |-> IF i = id THEN uid ELSE uidOf(uids, i)]

\* makeId(10), the call number n of this window
makeId(n) == [by |-> "makeId", n |-> n]

NewClipboard ==
    [message |-> JsUndefined, items |-> <<>>, posted |-> <<>>, error |-> FALSE, n |-> 0,
     uid |-> [control |-> <<>>, path |-> <<>>], made |-> 0,
     ev |-> [name |-> "new", data |-> JsUndefined, ret |-> FALSE, branch |-> "none",
             used |-> JsUndefined]]

ClipEv(name, data, ret, branch, used) ==
    [name |-> name, data |-> data, ret |-> ret, branch |-> branch, used |-> used]

\* a control as a plain object
plainControl(w, uids, c) ==
    [x |-> w.ctl[c].x, y |-> w.ctl[c].y, heading |-> w.ctl[c].heading, end |-> w.ctl[c].end,
     uid |-> uidOf(uids.control, c)]

\* instanceToPlain(items): the plain objects of the items; a path carries its
\* segments, every segment the plain objects of its own controls, so that a
\* control shared by two segments is written twice
instanceToPlain(w, uids, items) ==
    [i \in 1..Len(items) |->
        IF items[i].t = "path"
        THEN [uid |-> uidOf(uids.path, items[i].id), class |-> "path",
              segments |-> [j \in 1..Len(w.pths[items[i].id].segments) |->
                               LET cs == w.segs[w.pths[items[i].id].segments[j]].controls
                               IN [k \in 1..Len(cs) |-> plainControl(w, uids, cs[k])]]]
        ELSE [uid |-> uidOf(uids.control, items[i].id), class |-> "control",
              segments |-> <<>>]]

\* channel.onmessage = event => ...
ClipboardOnMessage(cb, data) ==
    LET g1 == isCopyPathMessage(data)
        g2 == IF g1 = "false" THEN isCopyControlsMessage(data) ELSE "false"
    IN IF g1 = "throw" \/ g2 = "throw"
       THEN [cb EXCEPT !.error = TRUE, !.ev = ClipEv("message", data, FALSE, "none", JsUndefined)]
       ELSE IF g1 = "true" \/ g2 = "true"
       THEN [cb EXCEPT !.message = data,
                       !.ev = ClipEv("message", data, TRUE, "none", JsUndefined)]
       ELSE [cb EXCEPT !.ev = ClipEv("message", data, FALSE, "none", JsUndefined)]

\* copy() without the test that all items are of one kind
copyWithoutKindTest(w, cb, sel, nonce) ==
    IF Len(sel) = 0 THEN [cb EXCEPT !.ev = ClipEv("copy", JsUndefined, FALSE, "none", JsUndefined)]
    ELSE LET message == [js |-> "object",
                         type |-> IF sel[1].t = "path" THEN "COPY_PATHS" ELSE "COPY_CONTROLS",
                         format |-> AppFormat, uol |-> AppUol,
                         body |-> instanceToPlain(w, cb.uid, sel), nonce |-> nonce]
         IN [cb EXCEPT !.items = sel,
                       !.message = message,
                       !.posted = Append(@, message),
                       !.ev = ClipEv("copy", message, TRUE, "none", JsUndefined)]

\* copy(), in a window with a channel
ClipboardCopy(w, cb, sel, nonce) ==
    IF Len(sel) = 0 THEN [cb EXCEPT !.ev = ClipEv("copy", JsUndefined, FALSE, "none", JsUndefined)]
    ELSE LET isCopyPaths == sel[1].t = "path"
         IN IF \E i \in 1..Len(sel) : (sel[i].t = "path") # isCopyPaths
            THEN [cb EXCEPT !.ev = ClipEv("copy", JsUndefined, FALSE, "none", JsUndefined)]
            ELSE LET message == [js |-> "object",
                                 type |-> IF isCopyPaths THEN "COPY_PATHS" ELSE "COPY_CONTROLS",
                                 format |-> AppFormat, uol |-> AppUol,
                                 body |-> instanceToPlain(w, cb.uid, sel),
                                 nonce |-> nonce]
                 IN [cb EXCEPT !.items = sel,
                               !.message = message,
                               !.posted = Append(@, message),
                               !.ev = ClipEv("copy", message, TRUE, "none", JsUndefined)]

\* paste() up to the choice of what to insert: nothing without a message or
\* with paths of another format, else the paths or the controls of the message
ClipboardPaste(cb) ==
    IF cb.message = JsUndefined
    THEN [cb EXCEPT !.ev = ClipEv("paste", JsUndefined, FALSE, "none", JsUndefined)]
    ELSE IF isCopyPathMessage(cb.message) = "true"
    THEN IF cb.message.format # AppFormat
         THEN [cb EXCEPT !.ev = ClipEv("paste", JsUndefined, FALSE, "none", cb.message)]
         ELSE [cb EXCEPT !.ev = ClipEv("paste", JsUndefined, TRUE, "paths", cb.message)]
    ELSE [cb EXCEPT !.ev = ClipEv("paste", JsUndefined, TRUE, "controls", cb.message)]

\* the length of a unit in centimetres
UolLength(uol) == IF uol = "m" THEN 100 ELSE 1

\* new UnitConverter(a, b).fromAtoB(value), on thousandths
convertUol(a, b, value) == (value * UolLength(a)) \div UolLength(b)

\* Segment.first = point, the setter
setFirst(w, s, point) ==
    IF Len(w.segs[s].controls) = 0 THEN w ELSE [w EXCEPT !.segs[s].controls[1] = point]

\* plainToInstance(Path, plain), the segments: every plain control becomes an
\* object of its own that has the properties of the plain one, its uid too;
\* st is the world, the uids and the segments made so far
RECURSIVE plainToSegments(_, _, _)
plainToSegments(st, plain, j) ==
    IF j > Len(plain) THEN st
    ELSE LET n == Len(st.w.ctl)
             cs == plain[j]
             made == [k \in 1..Len(cs) |-> [x |-> cs[k].x, y |-> cs[k].y,
                                             heading |-> cs[k].heading, end |-> cs[k].end]]
         IN plainToSegments(
                [w |-> [st.w EXCEPT !.ctl = @ \o made,
                                    !.segs = Append(@, [controls |-> [k \in 1..Len(cs) |-> n + k],
                                                        speedProfiles |-> <<>>])],
                 uid |-> [st.uid EXCEPT !.control =
                             [i \in 1..(n + Len(cs)) |->
                                 IF i > n THEN cs[i - n].uid ELSE uidOf(st.uid.control, i)]],
                 segments |-> Append(st.segments, Len(st.w.segs) + 1)],
                plain, j + 1)

\* the loop started at the third segment
RECURSIVE linkSegmentsFromThird(_, _, _)
linkSegmentsFromThird(w, segments, j) ==
    IF j > Len(segments) THEN w
    ELSE IF j = 2 THEN linkSegmentsFromThird(w, segments, j + 1)
    ELSE linkSegmentsFromThird(setFirst(w, segments[j], last(w, segments[j - 1])),
                               segments, j + 1)

\* the loop that links the first point of each segment to the last point of
\* the segment before it
RECURSIVE linkSegments(_, _, _)
linkSegments(w, segments, j) ==
    IF j > Len(segments) THEN w
    ELSE linkSegments(setFirst(w, segments[j], last(w, segments[j - 1])), segments, j + 1)

\* for (const control of path.controls): a new uid and the coordinates in the
\* unit of this window; st is the world, the uids and the calls of makeId
RECURSIVE refreshControls(_, _, _, _, _)
refreshControls(st, controls, k, a, b) ==
    IF k > Len(controls) THEN st
    ELSE LET c == controls[k]
         IN refreshControls(
                [w |-> [st.w EXCEPT !.ctl[c].x = convertUol(a, b, @),
                                    !.ctl[c].y = convertUol(a, b, @)],
                 uid |-> [st.uid EXCEPT !.control = setUid(@, c, makeId(st.made + 1))],
                 made |-> st.made + 1],
                controls, k + 1, a, b)

\* paste() of the paths of a message, up to the command: st is the world, the
\* uids, the calls of makeId and the new paths
RECURSIVE pastedPaths(_, _, _, _, _)
pastedPaths(st, plain, i, a, b) ==
    IF i > Len(plain) THEN st
    ELSE LET inst == plainToSegments([w |-> st.w, uid |-> st.uid, segments |-> <<>>],
                                     plain[i].segments, 1)
             path == Len(st.w.pths) + 1
             w1 == [inst.w EXCEPT !.pths = Append(@, [segments |-> inst.segments])]
             w2 == linkSegments(w1, inst.segments, 2)
             fresh == refreshControls(
                          [w |-> w2,
                           uid |-> [inst.uid EXCEPT !.path = setUid(@, path,
                                                                     makeId(st.made + 1))],
                           made |-> st.made + 1],
                          pathControls(w2, inst.segments, 1), 1, a, b)
         IN pastedPaths([w |-> fresh.w, uid |-> fresh.uid, made |-> fresh.made,
                         paths |-> Append(st.paths, path)],
                        plain, i + 1, a, b)

\* a path of two lines copied in another window, the point they share written
\* in both
OtherUid(n) == [by |-> "other", n |-> n]

OtherPath ==
    [uid |-> OtherUid(1), class |-> "path",
     segments |-> <<<<[x |-> 0, y |-> 0, heading |-> 0, end |-> TRUE, uid |-> OtherUid(2)],
                      [x |-> 207, y |-> 100, heading |-> 0, end |-> TRUE, uid |-> OtherUid(3)]>>,
                    <<[x |-> 207, y |-> 100, heading |-> 0, end |-> TRUE, uid |-> OtherUid(3)],
                      [x |-> 500, y |-> 0, heading |-> 90 * Milli, end |-> TRUE,
                       uid |-> OtherUid(4)]>>>>]

OtherControl == [uid |-> OtherUid(2), class |-> "control", segments |-> <<>>]

\* the values another window, or anything else on the channel, can send
Incoming(nonce) ==
    {JsNull, JsUndefined,
     [JsUndefined EXCEPT !.js = "string"],
     [JsUndefined EXCEPT !.js = "number"],
     [JsUndefined EXCEPT !.js = "object", !.nonce = nonce],
     [JsUndefined EXCEPT !.js = "object", !.type = "OTHER", !.nonce = nonce]}
    \cup {[js |-> "object", type |-> t, format |-> f, uol |-> AppUol,
           body |-> <<IF t = "COPY_PATHS" THEN OtherPath ELSE OtherControl>>,
           nonce |-> nonce] : t \in {"COPY_PATHS", "COPY_CONTROLS"}, f \in {"F1", "F2"}}
    \cup {[js |-> "object", type |-> "COPY_PATHS", format |-> AppFormat, uol |-> "m",
            body |-> <<OtherPath>>, nonce |-> nonce]}

\* what the user can have selected: nothing, a path, controls, or both kinds
Selections ==
    {<<>>, <<PathEntity(1)>>, <<CtlEntity(1)>>, <<CtlEntity(1), CtlEntity(2)>>,
     <<PathEntity(1), CtlEntity(1)>>}

ClipFrame ==
    UNCHANGED <<ctl, segs, kfs, pths, paths, cmds, lastExecution, history, redoHistory,
                savedCommand, now, crashed, op, calls, snap, life, kn, ui, vx, sm>>

\* the host selects entities: app.setSelected(...) and app.clearSelected()
Select ==
    /\ \E sel \in Selections : selected' = sel
    /\ clip' = [clip EXCEPT !.ev = ClipEv("select", JsUndefined, FALSE, "none", JsUndefined)]
    /\ ClipFrame

Copy ==
    /\ clip.n < MaxClipMsgs
    /\ clip' = [ClipboardCopy(World, clip, selected, clip.n + 1) EXCEPT !.n = clip.n + 1]
    /\ selected' = selected
    /\ ClipFrame

Receive ==
    /\ clip.n < MaxClipMsgs
    /\ ~clip.error
    /\ \E data \in Incoming(clip.n + 1) :
          clip' = [ClipboardOnMessage(clip, data) EXCEPT !.n = clip.n + 1]
    /\ selected' = selected
    /\ ClipFrame

Paste ==
    /\ clip' = ClipboardPaste(clip)
    /\ selected' = selected
    /\ ClipFrame

\* paste() of nothing or of paths: the paths of the stored message become
\* new objects and enter the list of paths by one InsertPaths, behind the
\* path app.interestedPath() names or in front of all; the new paths are
\* selected.  The controls of a message are pasted by an InsertControls that
\* is not followed here.
PastePaths ==
    /\ isCopyControlsMessage(clip.message) # "true"
    /\ IF ~ClipboardPaste(clip).ev.ret
       THEN /\ clip' = ClipboardPaste(clip)
            /\ selected' = selected
            /\ ClipFrame
       ELSE \E idx \in 0..Len(paths) :
              \E st \in {pastedPaths([w |-> World, uid |-> clip.uid, made |-> clip.made,
                                       paths |-> <<>>],
                                      clip.message.body, 1, clip.message.uol, AppUol)} :
                 RunFrom("Paste",
                         [BlankCommand EXCEPT !.kind = "InsertPaths", !.idx = idx,
                                              !.inserting = st.paths],
                         st.w, MaxCuts, ui,
                         [ClipboardPaste(clip) EXCEPT !.uid = st.uid, !.made = st.made],
                         [i \in 1..Len(st.paths) |-> PathEntity(st.paths[i])])

\* cut(): copy(), and when it succeeded one command that removes the items
Cut ==
    /\ clip.n < MaxClipMsgs
    /\ \E cb \in {[ClipboardCopy(World, clip, selected, clip.n + 1) EXCEPT !.n = clip.n + 1]} :
          IF ~cb.ev.ret \/ cb.items = <<>>
          THEN /\ clip' = [cb EXCEPT !.ev = ClipEv("cut", JsUndefined, FALSE, "none",
                                                     JsUndefined)]
               /\ selected' = selected
               /\ ClipFrame
          ELSE RunFrom("Cut",
                       [BlankCommand EXCEPT !.kind = "RemovePathTreeItems",
                                            !.items = cb.items],
                       World, MaxCuts, ui,
                       [cb EXCEPT !.ev = ClipEv("cut", cb.message, TRUE, "none", JsUndefined)],
                       selected)

(***************************************************************************)
(* JavaScript numbers, for the knots of a path (src/src/math/Path.tsx).    *)
(* A number is NaN, an infinity, or a binary fraction n / d kept exactly;  *)
(* a result that is no binary fraction would be rounded by the machine     *)
(* and is Rounded here: it spreads through every operation, and the        *)
(* inputs of the calculation are those that never produce it.  A zero is   *)
(* the positive zero: every divisor below is a literal 0, a difference     *)
(* x - x or a quotient of such a zero, none of which is the negative zero. *)
(***************************************************************************)
RECURSIVE Gcd(_, _)
Gcd(a, b) == IF b = 0 THEN a ELSE Gcd(b, a % b)

Abs(n) == IF n < 0 THEN -n ELSE n

RECURSIVE IsPow2(_)
IsPow2(d) == d = 1 \/ (d % 2 = 0 /\ IsPow2(d \div 2))

NaN == [k |-> "nan", n |-> 0, d |-> 1]

Infinity == [k |-> "inf", n |-> 1, d |-> 1]

Rounded == [k |-> "rounded", n |-> 0, d |-> 1]

\* n / d in lowest terms, g being the greatest common divisor of n and d
Num(n, d) ==
    LET lowest(g) ==
            IF IsPow2(d \div g) THEN [k |-> "fin", n |-> n \div g, d |-> d \div g]
            ELSE Rounded
    IN lowest(Gcd(Abs(n), d))

Whole(n) == Num(n, 1)

Zero == Whole(0)

One == Whole(1)

Sgn(a) == IF a.n > 0 THEN 1 ELSE IF a.n < 0 THEN -1 ELSE 0

Signed(s) == [Infinity EXCEPT !.n = s]

NNeg(a) == IF a.k \in {"fin", "inf"} THEN [a EXCEPT !.n = -a.n] ELSE a

\* a + b
NAdd(a, b) ==
    IF a.k = "rounded" \/ b.k = "rounded" THEN Rounded
    ELSE IF a.k = "nan" \/ b.k = "nan" THEN NaN
    ELSE IF a.k = "inf" THEN (IF b.k = "inf" /\ b.n # a.n THEN NaN ELSE a)
    ELSE IF b.k = "inf" THEN b
    ELSE Num(a.n * b.d + b.n * a.d, a.d * b.d)

\* a - b
NSub(a, b) == NAdd(a, NNeg(b))

\* a * b
NMul(a, b) ==
    IF a.k = "rounded" \/ b.k = "rounded" THEN Rounded
    ELSE IF a.k = "nan" \/ b.k = "nan" THEN NaN
    ELSE IF a.k = "inf" \/ b.k = "inf"
    THEN (IF Sgn(a) * Sgn(b) = 0 THEN NaN ELSE Signed(Sgn(a) * Sgn(b)))
    ELSE Num(a.n * b.n, a.d * b.d)

\* a / b
NDiv(a, b) ==
    IF a.k = "rounded" \/ b.k = "rounded" THEN Rounded
    ELSE IF a.k = "nan" \/ b.k = "nan" THEN NaN
    ELSE IF a.k = "inf"
    THEN (IF b.k = "inf" THEN NaN ELSE Signed(a.n * (IF b.n < 0 THEN -1 ELSE 1)))
    ELSE IF b.k = "inf" THEN Zero
    ELSE IF b.n = 0 THEN (IF a.n = 0 THEN NaN ELSE Signed(Sgn(a)))
    ELSE Num(a.n * b.d * Sgn(b), a.d * Abs(b.n))

\* a < b
NLt(a, b) ==
    /\ a.k \in {"fin", "inf"}
    /\ b.k \in {"fin", "inf"}
    /\ IF a.k = "inf" THEN a.n = -1 /\ ~(b.k = "inf" /\ b.n = -1)
       ELSE IF b.k = "inf" THEN b.n = 1
       ELSE a.n * b.d < b.n * a.d

\* a === b
NEq(a, b) == a.k \in {"fin", "inf"} /\ a = b

\* a <= b
NLe(a, b) == NLt(a, b) \/ NEq(a, b)

\* Math.min(a, b)
NMin(a, b) ==
    IF a.k = "rounded" \/ b.k = "rounded" THEN Rounded
    ELSE IF a.k = "nan" \/ b.k = "nan" THEN NaN
    ELSE IF NLt(b, a) THEN b ELSE a

\* Math.pow(a, i) for i = 0, 1, 2, 3
RECURSIVE NPow(_, _)
NPow(a, i) == IF i = 0 THEN One ELSE NMul(a, NPow(a, i - 1))

\* the least r in lo..hi with r * r >= n (46340 is the largest integer whose
\* square is a 32-bit integer)
RECURSIVE Root(_, _, _)
Root(n, lo, hi) ==
    IF lo >= hi THEN lo
    ELSE LET mid == (lo + hi) \div 2
         IN IF mid * mid >= n THEN Root(n, lo, mid) ELSE Root(n, mid + 1, hi)

\* Math.sqrt(a)
NSqrt(a) ==
    IF a.k \in {"rounded", "nan"} THEN a
    ELSE IF a.k = "inf" THEN (IF a.n > 0 THEN a ELSE NaN)
    ELSE IF a.n < 0 THEN NaN
    ELSE LET exactRoot(rn, rd) ==
                 IF rn * rn = a.n /\ rd * rd = a.d THEN Num(rn, rd) ELSE Rounded
         IN exactRoot(Root(a.n, 0, Min(a.n, 46340)), Root(a.d, 0, Min(a.d, 46340)))

(***************************************************************************)
(* Knots.  A control of a spline is a record of x, y and heading; a knot   *)
(* has delta, integral and speed besides.  NoHeading is the undefined      *)
(* heading: fixPrecision keeps the heading of an end point in [0, 360).    *)
(***************************************************************************)
NoHeading == -1

OverSampling == 200

Knot(x, y, delta, integral, speed, heading) ==
    [x |-> x, y |-> y, delta |-> delta, integral |-> integral, speed |-> speed,
     heading |-> heading]

distance(a, b) == NSqrt(NAdd(NPow(NSub(a.x, b.x), 2), NPow(NSub(a.y, b.y), 2)))

\* new UnitConverter(a, b).fromAtoB(value), a unit having a length in centimetres
fromAtoB(a, b, value) ==
    LET UnitLength(uol) == IF uol = "Meter" THEN Whole(100) ELSE One
    IN NDiv(NMul(value, UnitLength(a)), UnitLength(b))

RECURSIVE binomialUp(_, _, _)
binomialUp(coeff, i, n) ==
    IF i > n THEN coeff ELSE binomialUp(NMul(coeff, Whole(i)), i + 1, n)

RECURSIVE binomialDown(_, _, _)
binomialDown(coeff, i, k) ==
    IF i > k THEN coeff ELSE binomialDown(NDiv(coeff, Whole(i)), i + 1, k)

binomial(n, k) == binomialDown(binomialUp(One, n - k + 1, n), 1, k)

bernstein(n, i, t) == NMul(NMul(binomial(n, i), NPow(t, i)), NPow(NSub(One, t), n - i))

\* the inner loop of calculateBezierCurveKnots: the point of the curve at t
RECURSIVE bezierPoint(_, _, _, _)
bezierPoint(controls, t, i, point) ==
    LET \* point.x += controlPoint.x * bernstein; point.y += controlPoint.y * bernstein
        addScaled(c, b) ==
            [x |-> NAdd(point.x, NMul(c.x, b)), y |-> NAdd(point.y, NMul(c.y, b))]
    IN IF i > Len(controls) - 1 THEN point
       ELSE bezierPoint(controls, t, i + 1,
                        addScaled(controls[i + 1], bernstein(Len(controls) - 1, i, t)))

\* the loop of calculateBezierCurveKnots, from t on
RECURSIVE bezierKnots(_, _, _, _, _, _)
bezierKnots(controls, interval, t, lastPoint, totalDistance, knots) ==
    LET \* knots.push(new Knot(point.x, point.y, delta, totalDistance += delta));
        \* lastPoint = point; t += interval
        next(point, delta) ==
            bezierKnots(controls, interval, NAdd(t, interval), point,
                        NAdd(totalDistance, delta),
                        Append(knots, Knot(point.x, point.y, delta,
                                           NAdd(totalDistance, delta), Zero, NoHeading)))
        \* let delta = point.distance(lastPoint)
        step(point) == next(point, distance(point, lastPoint))
    IN IF ~NLe(t, One) THEN knots
       ELSE step(bezierPoint(controls, t, 0, [x |-> Zero, y |-> Zero]))

calculateBezierCurveKnots(controls, interval, integral) ==
    bezierKnots(controls, interval, Zero, controls[1], integral, <<>>)

\* Spline.calculateKnots(gc, sc, integral)
SplineCalculateKnots(controls, gc, integral) ==
    LET \* if (knots.length > 1) knots[0].heading = this.first().heading
        withFirstHeading(knots) ==
            IF Len(knots) > 1 THEN [knots EXCEPT ![1].heading = controls[1].heading]
            ELSE knots
        \* integralDistance and finalKnot, distance being dist
        finalKnot(lastKnot, lastControl, dist) ==
            Knot(lastControl.x, lastControl.y, dist, NAdd(lastKnot.integral, dist), Zero,
                 lastControl.heading)
        \* lastKnot, lastControl, distance; knots.push(finalKnot)
        pushFinalKnot(knots) ==
            Append(knots, finalKnot(knots[Len(knots)], controls[Len(controls)],
                                    distance(knots[Len(knots)], controls[Len(controls)])))
        \* knot.delta *= splineDeltaRatio, for every knot
        scaleDeltas(knots, splineDeltaRatio) ==
            [i \in 1..Len(knots) |-> [knots[i] EXCEPT !.delta = NMul(@, splineDeltaRatio)]]
        \* splineDeltaRatio, integralDistance being the integral of the final knot
        splineDeltas(knots, targetInterval) ==
            scaleDeltas(knots,
                        NDiv(NDiv(One, targetInterval),
                             NDiv(NSub(knots[Len(knots)].integral, integral),
                                  gc.knotDensity)))
        \* the method after its first statement
        splineKnots(targetInterval) ==
            splineDeltas(pushFinalKnot(withFirstHeading(
                             calculateBezierCurveKnots(controls, targetInterval, integral))),
                         targetInterval)
    IN splineKnots(NDiv(fromAtoB(gc.uol, "Centimeter", gc.knotDensity),
                        Whole(OverSampling)))

\* Path.calculateKnots: the loop over the splines, from spline i on
RECURSIVE firstPass(_, _, _, _, _)
firstPass(splines, i, gc, gen1, pathTTD) ==
    LET \* if (pathTTD === 0) gen1.push(firstKnot); gen1.push(...knots)
        pushSpline(all) ==
            (IF NEq(pathTTD, Zero) THEN Append(gen1, Head(all)) ELSE gen1) \o Tail(all)
        \* pathTTD = gen1[gen1.length - 1].integral, g being gen1 by now
        next(g) == firstPass(splines, i + 1, gc, g, g[Len(g)].integral)
    IN IF i > Len(splines) THEN gen1
       ELSE next(pushSpline(SplineCalculateKnots(splines[i], gc, pathTTD)))

\* what Path.calculateKnots derives from the speed configuration
SpeedTerms(sc, gc, pathTTD) ==
    LET terms(speedDiff, applicationDiff) ==
            [speedDiff |-> speedDiff,
             applicationDiff |-> applicationDiff,
             useRatio |-> ~NEq(speedDiff, Zero) /\ ~NEq(applicationDiff, Zero),
             applicationRatio |-> NDiv(speedDiff, applicationDiff),
             accelThreshold |-> NMul(sc.transitionRange.from, pathTTD),
             decThreshold |-> NMul(sc.transitionRange.to, pathTTD),
             accelSpeedScale |-> NDiv(speedDiff, sc.transitionRange.from),
             decSpeedScale |-> NDiv(speedDiff, NSub(One, sc.transitionRange.to)),
             targetInterval |-> NDiv(One, NDiv(pathTTD, gc.knotDensity))]
    IN terms(NSub(sc.speedLimit.to, sc.speedLimit.from),
             NSub(sc.applicationRange.to, sc.applicationRange.from))

\* calculateSpeed(p3)
calculateSpeed(p3, sc, st, pathTTD) ==
    LET \* the speed by the application range
        speedByDelta(delta) ==
            IF NLt(delta, sc.applicationRange.from) /\ ~NEq(delta, Zero)
            THEN sc.speedLimit.from
            ELSE IF NLt(sc.applicationRange.to, delta) THEN sc.speedLimit.to
            ELSE IF st.useRatio /\ ~NEq(delta, Zero)
            THEN NAdd(sc.speedLimit.from,
                      NMul(NSub(delta, sc.applicationRange.from), st.applicationRatio))
            ELSE sc.speedLimit.to
        \* the speed under the acceleration and deceleration ramps
        speedByRamps(speed, integral) ==
            IF NLt(integral, st.accelThreshold)
            THEN NMin(speed, NAdd(sc.speedLimit.from,
                                  NMul(NDiv(integral, pathTTD), st.accelSpeedScale)))
            ELSE IF NLt(st.decThreshold, integral)
            THEN NMin(speed, NAdd(sc.speedLimit.from,
                                  NMul(NSub(One, NDiv(integral, pathTTD)),
                                       st.decSpeedScale)))
            ELSE speed
    IN [p3 EXCEPT !.speed = speedByRamps(speedByDelta(p3.delta), p3.integral)]

\* the while loop with <= in place of <
RECURSIVE advanceWhileNotAbove(_, _, _, _)
advanceWhileNotAbove(gen1, idx, integral, heading) ==
    IF idx + 1 > Len(gen1) THEN [idx |-> idx, heading |-> heading, threw |-> TRUE]
    ELSE IF NLe(gen1[idx + 1].integral, integral)
    THEN advanceWhileNotAbove(gen1, idx + 1, integral,
                 IF gen1[idx + 1].heading # NoHeading THEN gen1[idx + 1].heading ELSE heading)
    ELSE [idx |-> idx, heading |-> heading, threw |-> FALSE]

\* the while loop of the second pass; idx is the index of JavaScript, and
\* reading gen1 past its end throws
RECURSIVE advance(_, _, _, _)
advance(gen1, idx, integral, heading) ==
    IF idx + 1 > Len(gen1) THEN [idx |-> idx, heading |-> heading, threw |-> TRUE]
    ELSE IF NLt(gen1[idx + 1].integral, integral)
    THEN advance(gen1, idx + 1, integral,
                 IF gen1[idx + 1].heading # NoHeading THEN gen1[idx + 1].heading ELSE heading)
    ELSE [idx |-> idx, heading |-> heading, threw |-> FALSE]

\* the for loop of the second pass, from t on
RECURSIVE secondPass(_, _, _, _, _, _, _)
secondPass(gen1, sc, st, pathTTD, t, closestIdx, gen2) ==
    LET \* p3X, p3Y, p3Delta and p3
        knotAtRatio(p1, p2, pRatio, integral, heading) ==
            Knot(NAdd(p1.x, NMul(NSub(p2.x, p1.x), pRatio)),
                 NAdd(p1.y, NMul(NSub(p2.y, p1.y), pRatio)),
                 NAdd(p1.delta, NMul(NSub(p2.delta, p1.delta), pRatio)),
                 integral, Zero, heading)
        \* const pRatio = (integral - p1.integral) / (p2.integral - p1.integral)
        interpolated(p1, p2, integral, heading) ==
            knotAtRatio(p1, p2,
                        NDiv(NSub(integral, p1.integral), NSub(p2.integral, p1.integral)),
                        integral, heading)
        \* the body after the while loop, which left a
        at(integral, a) ==
            IF a.threw THEN [gen2 |-> gen2, threw |-> TRUE]
            ELSE secondPass(gen1, sc, st, pathTTD, NAdd(t, st.targetInterval), a.idx,
                            Append(gen2,
                                   calculateSpeed(interpolated(gen1[a.idx], gen1[a.idx + 1],
                                                               integral, a.heading),
                                                  sc, st, pathTTD)))
    IN IF ~NLt(t, One) THEN [gen2 |-> gen2, threw |-> FALSE]
       ELSE at(NMul(t, pathTTD), advance(gen1, closestIdx, NMul(t, pathTTD), NoHeading))

\* this.splines[this.splines.length - 1].last()
lastControlOf(splines) == splines[Len(splines)][Len(splines[Len(splines)])]

\* Path.calculateKnots(gc, sc): the knots of the first pass, the knots
\* returned, whether it threw, and the numbers it derived on the way
PathCalculateKnots(splines, gc, sc) ==
    LET \* the final knot of the path
        finalKnot(lastControl) ==
            Knot(lastControl.x, lastControl.y, Zero, Zero, Zero, lastControl.heading)
        \* gen2[0].heading = gen1[0].heading; gen2.push(finalKnot); return
        return(gen1, st, r) ==
            [gen1 |-> gen1,
             knots |-> IF r.threw THEN <<>>
                       ELSE Append([r.gen2 EXCEPT ![1].heading = gen1[1].heading],
                                   finalKnot(lastControlOf(splines))),
             threw |-> r.threw,
             terms |-> <<st.targetInterval, st.applicationRatio, st.accelThreshold,
                         st.decThreshold, st.accelSpeedScale, st.decSpeedScale>>]
        \* the second pass
        resample(gen1, pathTTD, st) ==
            return(gen1, st, secondPass(gen1, sc, st, pathTTD, Zero, 1, <<>>))
        \* after the first pass
        shape(gen1) ==
            IF Len(gen1) < 2
            THEN [gen1 |-> gen1, knots |-> gen1, threw |-> FALSE, terms |-> <<>>]
            ELSE resample(gen1, gen1[Len(gen1)].integral,
                          SpeedTerms(sc, gc, gen1[Len(gen1)].integral))
    IN shape(firstPass(splines, 1, gc, <<>>, Zero))

\* the inputs of the calculation
End(x, y, heading) == [x |-> Whole(x), y |-> Whole(y), heading |-> heading]

Mid(x, y) == [x |-> Whole(x), y |-> Whole(y), heading |-> NoHeading]

Line(a, b) == <<a, b>>

KnotPaths ==
    {<<>>,
     <<Line(End(0, 0, 0), End(4, 0, 90))>>,
     <<Line(End(0, 0, 0), End(2, 0, 90))>>,
     <<Line(End(0, 0, 0), End(4, 0, 90)), Line(End(4, 0, 90), End(8, 0, 180))>>,
     <<Line(End(0, 0, 0), End(4, 0, 90)), Line(End(4, 0, 90), End(4, 4, 180))>>,
     <<Line(End(0, 0, 0), End(4, 0, 90)), Line(End(4, 0, 90), End(0, 0, 180))>>,
     <<Line(End(0, 0, 45), End(0, 0, 90))>>,
     <<Line(End(0, 0, 45), End(0, 0, 90)), Line(End(0, 0, 90), End(4, 0, 180))>>,
     <<Line(End(0, 0, 0), End(4, 0, 90)), Line(End(4, 0, 90), End(4, 0, 180))>>,
     <<<<End(0, 0, 0), Mid(4, 0), Mid(4, 0), End(4, 0, 90)>>>>,
     <<<<End(0, 0, 0), Mid(4, 0), Mid(4, 0), End(4, 0, 90)>>,
       Line(End(4, 0, 90), End(4, 4, 180))>>,
     <<Line(End(0, 0, 0), End(400, 0, 90)), Line(End(400, 0, 90), End(800, 0, 180))>>}

GeneralConfigs ==
    {[uol |-> "Meter", knotDensity |-> Whole(1)],
     [uol |-> "Meter", knotDensity |-> Whole(2)],
     [uol |-> "Meter", knotDensity |-> Whole(4)],
     [uol |-> "Centimeter", knotDensity |-> Whole(100)],
     [uol |-> "Centimeter", knotDensity |-> Whole(400)]}

FromTo(from, to) == [from |-> from, to |-> to]

SpeedConfigs ==
    {[speedLimit |-> l, applicationRange |-> a, transitionRange |-> t] :
        l \in {FromTo(Whole(0), Whole(32)), FromTo(Whole(32), Whole(32)), FromTo(Whole(32), Whole(64))},
        a \in {FromTo(Whole(0), Whole(4)), FromTo(Whole(1), Whole(2)), FromTo(Whole(2), Whole(2))},
        t \in {FromTo(f, u) : f \in {Zero, Num(1, 4)}, u \in {Num(3, 4), One}}}

\* no operation of the calculation was rounded
Exact(r) ==
    /\ \A i \in 1..Len(r.terms) : r.terms[i].k # "rounded"
    /\ \A g \in {r.gen1, r.knots} : \A i \in 1..Len(g) :
          \A f \in {"x", "y", "delta", "integral", "speed"} : g[i][f].k # "rounded"

KnotInputs == [path : KnotPaths, gc : GeneralConfigs, sc : SpeedConfigs]

NoKnots ==
    [phase |-> "new", path |-> <<>>, gc |-> [uol |-> "Centimeter", knotDensity |-> One],
     sc |-> [speedLimit |-> FromTo(Zero, Zero), applicationRange |-> FromTo(Zero, Zero),
             transitionRange |-> FromTo(Zero, One)],
     gen1 |-> <<>>, knots |-> <<>>, threw |-> FALSE]

\* the path with its knots r
Calculated(k, r) ==
    [k EXCEPT !.phase = "done", !.gen1 = r.gen1, !.knots = r.knots, !.threw = r.threw]

\* path.calculateKnots(gc, sc), which sets path.cachedKnots
CalculateKnots ==
    /\ kn.phase # "new"
    /\ kn' = Calculated(kn, PathCalculateKnots(kn.path, kn.gc, kn.sc))
    /\ UNCHANGED <<ctl, segs, kfs, pths, paths, cmds, lastExecution, history, redoHistory,
                   savedCommand, selected, now, crashed, op, calls, snap, life, clip, ui, vx, sm>>

(***************************************************************************)
(* SplinePointsHitBoxElement: a click on the hit box of a spline.  The     *)
(* lock flags of the controls and of the paths are kept in ui, next to     *)
(* what the last click was.                                                *)
(***************************************************************************)
NoClick ==
    [lockedControls |-> {}, lockedPaths |-> {}, clicks |-> 0, button |-> -1, path |-> 0,
     spline |-> 0, controls |-> 0, point |-> 0, locked |-> FALSE]

\* evt.button: left, middle, right
Buttons == {0, 1, 2}

\* cc.toUOL(cpInPx), the clicked position in the unit of length
ClickPoints == {EndPointControl(30004, 20 * Milli, 0)}

neverLocked(w, u, spline) == FALSE

\* Spline.isLocked(): this.controls.some((cp) => cp.lock)
SplineIsLocked(w, u, spline) ==
    \E i \in 1..Len(w.segs[spline].controls) :
        w.segs[spline].controls[i] \in u.lockedControls

\* the command of a click on an unlocked spline: SplitSpline on a right
\* click, ConvertSpline on a left click
ClickCommand(w, path, spline, button) ==
    IF button = 2
    THEN [BlankCommand EXCEPT !.kind = "SplitSegment", !.path = path,
                              !.originalSegment = spline, !.point = Len(w.ctl)]
    ELSE [BlankCommand EXCEPT !.kind = "ConvertSegment", !.path = path, !.segment = spline,
                              !.variant = IF Len(w.segs[spline].controls) = 2 THEN "CURVE"
                                          ELSE "LINEAR"]

ClickTitle(w, spline, button) ==
    IF button = 2 THEN "Split spline"
    ELSE IF Len(w.segs[spline].controls) = 2 THEN "Convert spline to curve"
    ELSE "Convert spline to line"

\* onLineClick(event) on the hit box of a spline of a path; the point built
\* from the position of the click enters the heap when a split receives it
LineClick ==
    /\ ~Broken
    /\ ui.clicks < MaxClicks
    /\ \E path \in Range(paths), button \in Buttons, pt \in ClickPoints :
        \E spline \in Range(pths[path].segments) :
            \E isLocked \in {SplineIsLocked(World, ui, spline) \/ path \in ui.lockedPaths} :
             \E u \in {[ui EXCEPT !.clicks = @ + 1, !.button = button, !.path = path,
                                  !.spline = spline, !.locked = isLocked,
                                  !.controls = Len(segs[spline].controls),
                                  !.point = IF button = 2 /\ ~isLocked THEN Len(ctl) + 1
                                            ELSE 0]} :
                IF isLocked \/ button \notin {0, 2}
                THEN /\ ui' = u
                     /\ UNCHANGED <<ctl, segs, kfs, pths, paths, cmds, lastExecution, history,
                                    redoHistory, savedCommand, selected, now, crashed, op,
                                    calls, snap, life, clip, kn, vx, sm>>
                ELSE \E w0 \in {IF button = 2 THEN newControl(World, pt) ELSE World} :
                        RunWith(ClickTitle(w0, spline, button),
                                ClickCommand(w0, path, spline, button), w0, MaxClicks, u)

(***************************************************************************)
(* The operations of Vertex on two points, one at a time.                  *)
(***************************************************************************)
NoVector ==
    [phase |-> "new", op |-> "", this |-> Control(0, 0), other |-> Control(0, 0),
     distance |-> 0, result |-> Control(0, 0)]

VertexOps == {"add", "subtract", "multiply", "divide", "interpolate", "mirror", "setXY"}

\* points with coordinates to three decimals and headings inside and
\* outside of [0, 360)
Vertices ==
    {Control(1234, -5), Control(2 * Milli, 2 * Milli), Control(-3, 7),
     EndPointControl(1, 7, 359999), EndPointControl(20004, -5, -1),
     EndPointControl(20 * Milli, 10 * Milli, 90 * Milli),
     EndPointControl(-1236, 2504, 450004)}

Distances == {2, 1500}

\* the operation named of this on other
VertexResult(name, this, other, dist) ==
    IF name = "add" THEN add(this, other)
    ELSE IF name = "subtract" THEN subtract(this, other)
    ELSE IF name = "multiply" THEN multiply(this, other)
    ELSE IF name = "divide" THEN divide(this, other)
    ELSE IF name = "interpolate" THEN interpolate(this, other, dist)
    ELSE IF name = "mirror" THEN mirror(this, other)
    ELSE setXY(this, other)

VertexOp ==
    /\ vx.phase = "input"
    /\ \E name \in VertexOps, dist \in Distances :
          /\ name = "interpolate" => vx.other.y = vx.this.y
          /\ name # "interpolate" => dist = 2
          /\ vx' = [vx EXCEPT !.phase = "done", !.op = name, !.distance = dist,
                              !.result = VertexResult(name, vx.this, vx.other, dist)]
    /\ UNCHANGED <<ctl, segs, kfs, pths, paths, cmds, lastExecution, history, redoHistory,
                   savedCommand, selected, now, crashed, op, calls, snap, life, clip, kn, ui, sm>>

(***************************************************************************)
(* The sampling loops of Path.calculateKnots, one iteration at a time:     *)
(* the loop of calculateBezierCurveKnots for each spline in turn, then     *)
(* the loop of the second pass.                                            *)
(***************************************************************************)
NoSampling ==
    [phase |-> "new", path |-> <<>>, gc |-> [uol |-> "Centimeter", knotDensity |-> One],
     spline |-> 0, t |-> Zero, interval |-> Zero, samples |-> 0, pushed |-> <<>>,
     gen1 |-> <<>>, pathTTD |-> Zero, closestIdx |-> 0]

\* the speed configuration does not enter the loop conditions
SamplingSpeed ==
    [speedLimit |-> FromTo(Whole(0), Whole(32)), applicationRange |-> FromTo(Whole(0), Whole(4)),
     transitionRange |-> FromTo(Zero, One)]

\* Spline.calculateKnots: targetInterval
splineInterval(gc) == NDiv(fromAtoB(gc.uol, "Centimeter", gc.knotDensity), Whole(OverSampling))

\* the state when the loop of spline i begins; after the last spline the
\* first pass is over, gen1 holds the knots s.pushed that the loops have
\* pushed, and the second pass begins, unless gen1 is short
samplingAt(s, i) ==
    LET secondPassOf(gen1) ==
            IF Len(gen1) < 2 THEN [s EXCEPT !.phase = "done", !.gen1 = gen1]
            ELSE [s EXCEPT !.phase = "pass2", !.gen1 = gen1, !.t = Zero, !.samples = 0,
                           !.pathTTD = gen1[Len(gen1)].integral,
                           !.interval = NDiv(One, NDiv(gen1[Len(gen1)].integral,
                                                       s.gc.knotDensity)),
                           !.closestIdx = 1]
    IN IF i > Len(s.path) THEN secondPassOf(s.pushed)
       ELSE [s EXCEPT !.phase = "spline", !.spline = i, !.t = Zero, !.samples = 0,
                      !.interval = splineInterval(s.gc)]

\* one round of for (let t = 0; t <= 1; t += interval) of a spline
SplineSample ==
    /\ sm.phase = "spline"
    /\ sm' = IF NLe(sm.t, One)
             THEN [sm EXCEPT !.t = NAdd(@, sm.interval),
                             !.samples = Min(@ + 1, MaxSamples)]
             ELSE samplingAt(sm, sm.spline + 1)
    /\ UNCHANGED <<ctl, segs, kfs, pths, paths, cmds, lastExecution, history, redoHistory,
                   savedCommand, selected, now, crashed, op, calls, snap, life, clip, kn, ui,
                   vx>>

\* one round of for (let t = 0; t < 1; t += targetInterval) of the second pass
PathSample ==
    /\ sm.phase = "pass2"
    /\ sm' = IF NLt(sm.t, One)
             THEN LET moved(a) ==
                          IF a.threw THEN [sm EXCEPT !.phase = "threw", !.closestIdx = a.idx]
                          ELSE [sm EXCEPT !.closestIdx = a.idx, !.t = NAdd(@, sm.interval),
                                          !.samples = Min(@ + 1, MaxSamples)]
                  IN moved(advance(sm.gen1, sm.closestIdx, NMul(sm.t, sm.pathTTD),
                                   NoHeading))
             ELSE [sm EXCEPT !.phase = "done"]
    /\ UNCHANGED <<ctl, segs, kfs, pths, paths, cmds, lastExecution, history, redoHistory,
                   savedCommand, selected, now, crashed, op, calls, snap, life, clip, kn, ui,
                   vx>>

\* the knot densities: those of GeneralConfigs and none at all
SamplingConfigs == GeneralConfigs \cup {[uol |-> "Centimeter", knotDensity |-> Zero]}

(***************************************************************************)
(* Initial states: a document just loaded, with an empty history.          *)
(***************************************************************************)
\* one path of two lines A -> B -> C with a keyframe on the first
DocLines ==
    [ctl |-> <<EndPointControl(0, 0, 0), EndPointControl(20 * Milli, 10 * Milli, 0),
               EndPointControl(50 * Milli, 0, 90 * Milli)>>,
     segs |-> <<[controls |-> <<1, 2>>, speedProfiles |-> <<1>>],
                [controls |-> <<2, 3>>, speedProfiles |-> <<>>]>>,
     kfs |-> <<[xPos |-> 250, yPos |-> 500]>>,
     pths |-> <<[segments |-> <<1, 2>>]>>,
     paths |-> <<1>>]

\* one path of a curve and a line
DocCurve ==
    [ctl |-> <<EndPointControl(0, 0, 0), Control(5 * Milli, 12 * Milli),
               Control(15002, 12 * Milli), EndPointControl(20 * Milli, 10 * Milli, 0),
               EndPointControl(50 * Milli, 0, 90 * Milli)>>,
     segs |-> <<[controls |-> <<1, 2, 3, 4>>, speedProfiles |-> <<>>],
                [controls |-> <<4, 5>>, speedProfiles |-> <<>>]>>,
     kfs |-> <<>>,
     pths |-> <<[segments |-> <<1, 2>>]>>,
     paths |-> <<1>>]

InitDocs == {DocLines, DocCurve}

InitWith(docs) ==
    /\ \E d \in docs :
        /\ ctl = d.ctl
        /\ segs = d.segs
        /\ kfs = d.kfs
        /\ pths = d.pths
        /\ paths = d.paths
    /\ cmds = <<>>
    /\ lastExecution = None
    /\ history = <<>>
    /\ redoHistory = <<>>
    /\ savedCommand = Undefined
    /\ selected = <<>>
    /\ now = 0
    /\ crashed = FALSE
    /\ op = [name |-> "init", cmd |-> 0, merged |-> FALSE, ret |-> FALSE, title |-> "",
             result |-> "none", done |-> 0, undone |-> 0, pending |-> FALSE]
    /\ calls = <<>>
    /\ snap = Idle
    /\ life = <<>>
    /\ clip = NewClipboard

InitDocument == InitWith(InitDocs)

Init == InitDocument /\ kn = NoKnots /\ ui = NoClick /\ vx = NoVector /\ sm = NoSampling

\* a path and its configuration, before its knots are calculated
InitKnots ==
    /\ InitDocument
    /\ ui = NoClick
    /\ vx = NoVector
    /\ sm = NoSampling
    /\ \E i \in KnotInputs :
          /\ Exact(PathCalculateKnots(i.path, i.gc, i.sc))
          /\ kn = [NoKnots EXCEPT !.phase = "input", !.path = i.path, !.gc = i.gc,
                                   !.sc = i.sc]

(***************************************************************************)
(* Specifications.                                                         *)
(***************************************************************************)
\* every command, undone and redone
Next ==
    \/ ExecUpdate(MaxCmds)
    \/ ExecAddSegment(MaxCmds)
    \/ ExecConvertSegment(MaxCmds)
    \/ ExecSplitSegment(MaxCmds)
    \/ ExecRemoveSegment(MaxCmds)
    \/ ExecDragControls(MaxCmds)
    \/ ExecAddKeyframe(MaxCmds)
    \/ ExecMoveKeyframe(MaxCmds)
    \/ ExecRemoveKeyframe(MaxCmds)
    \/ ExecAddPath(MaxCmds)
    \/ ExecRemovePath(MaxCmds)
    \/ Undo
    \/ Redo

Spec == Init /\ [][Next]_vars

\* the segment commands on a path
NextSeg ==
    \/ ExecAddSegment(MaxSegCmds)
    \/ ExecConvertSegment(MaxSegCmds)
    \/ ExecSplitSegment(MaxSegCmds)
    \/ ExecRemoveSegment(MaxSegCmds)
    \/ Undo
    \/ Redo

SpecSeg == Init /\ [][NextSeg]_vars

\* the keyframe commands
NextKf ==
    \/ ExecAddKeyframe(MaxKfCmds)
    \/ ExecMoveKeyframe(MaxKfCmds)
    \/ ExecRemoveKeyframe(MaxKfCmds)
    \/ Undo
    \/ Redo

SpecKf == Init /\ [][NextKf]_vars

\* every handler of the history, with a mergeable command and one that is not
NextHist ==
    \/ ExecDragControls(MaxHistCmds)
    \/ ExecAddPath(MaxHistCmds)
    \/ Undo
    \/ Redo
    \/ Commit
    \/ Save
    \/ IsModified
    \/ ClearHistory

SpecHist == Init /\ [][NextHist]_vars

\* the commands on the list of paths
NextPath ==
    \/ ExecAddPath(MaxPathCmds)
    \/ ExecRemovePath(MaxPathCmds)
    \/ Undo
    \/ Redo

SpecPath == Init /\ [][NextPath]_vars

\* the knots of a path
NextKnots == CalculateKnots

SpecKnots == InitKnots /\ [][NextKnots]_vars

\* one path of three lines whose end points have coordinates to three decimals
DocFine ==
    [ctl |-> <<EndPointControl(1, 3, 0), EndPointControl(20004, 10 * Milli, 0),
               EndPointControl(50001, 7, 90 * Milli), EndPointControl(70003, 30 * Milli, 0)>>,
     segs |-> <<[controls |-> <<1, 2>>, speedProfiles |-> <<>>],
                [controls |-> <<2, 3>>, speedProfiles |-> <<>>],
                [controls |-> <<3, 4>>, speedProfiles |-> <<>>]>>,
     kfs |-> <<>>,
     pths |-> <<[segments |-> <<1, 2, 3>>]>>,
     paths |-> <<1>>]

ClickDocs == {DocCurve, DocFine}

\* what is locked when the clicks begin: nothing, one end point, the path
ClickLocks == {[c |-> {}, p |-> {}], [c |-> {2}, p |-> {}], [c |-> {}, p |-> {1}]}

InitHitBox ==
    /\ InitWith(ClickDocs)
    /\ kn = NoKnots
    /\ vx = NoVector
    /\ sm = NoSampling
    /\ \E l \in ClickLocks : ui = [NoClick EXCEPT !.lockedControls = l.c, !.lockedPaths = l.p]

\* clicks on the hit boxes of the splines, undone and redone
NextHitBox ==
    \/ LineClick
    \/ Undo
    \/ Redo

SpecHitBox == InitHitBox /\ [][NextHitBox]_vars

\* two points before an operation of Vertex
InitVertex ==
    /\ InitDocument
    /\ kn = NoKnots
    /\ ui = NoClick
    /\ sm = NoSampling
    /\ \E this \in Vertices, other \in Vertices :
          vx = [NoVector EXCEPT !.phase = "input", !.this = this, !.other = other]

NextVertex == VertexOp

SpecVertex == InitVertex /\ [][NextVertex]_vars

\* a path and a knot density before the sampling begins
InitSampling ==
    /\ InitDocument
    /\ kn = NoKnots
    /\ ui = NoClick
    /\ vx = NoVector
    /\ \E path \in KnotPaths, gc \in SamplingConfigs :
          /\ ~NEq(gc.knotDensity, Zero) => Exact(PathCalculateKnots(path, gc, SamplingSpeed))
          /\ sm = samplingAt([NoSampling EXCEPT
                                 !.path = path, !.gc = gc,
                                 !.pushed = IF NEq(gc.knotDensity, Zero) THEN <<>>
                                            ELSE firstPass(path, 1, gc, <<>>, Zero)], 1)

NextSampling ==
    \/ SplineSample
    \/ PathSample

SpecSampling == InitSampling /\ [][NextSampling]_vars

\* a loop that can do a round does it
SpecSamplingFair == SpecSampling /\ WF_vars(NextSampling)

\* the clipboard: local copies, messages of other windows, pastes
NextClip ==
    \/ Select
    \/ Copy
    \/ Receive
    \/ Paste

SpecClip == Init /\ [][NextClip]_vars

\* the document of two lines, the clipboard empty
InitLines ==
    /\ InitWith({DocLines})
    /\ kn = NoKnots
    /\ ui = NoClick
    /\ vx = NoVector
    /\ sm = NoSampling

\* selections, copies and cuts, with undo
NextCut ==
    \/ Select
    \/ Copy
    \/ Cut
    \/ Undo

SpecCut == InitLines /\ [][NextCut]_vars

\* copies, messages of other windows and pastes of paths, with undo
NextPaste ==
    \/ Copy
    \/ Receive
    \/ PastePaths
    \/ Undo

SpecPaste == InitLines /\ [][NextPaste]_vars

\* drags of one control and of groups of controls
NextDrag ==
    \/ ExecDragControls(MaxDragCmds)
    \/ ExecDragGroup(MaxDragCmds)
    \/ Undo
    \/ Redo

SpecDrag == Init /\ [][NextDrag]_vars

(***************************************************************************)
(* The document: what is reachable from the list of paths.                 *)
(***************************************************************************)
DocSegs(d) == UNION {Range(d.pths[p].segments) : p \in Range(d.paths)} \ {Undefined}

DocCtls(d) == UNION {Range(d.segs[s].controls) : s \in DocSegs(d)}

DocKfs(d) == UNION {Range(d.segs[s].speedProfiles) : s \in DocSegs(d)}

\* cur has the path list, the segment lists, the control lists, the
\* coordinates and the keyframe lists that d had
Restored(d, cur) ==
    /\ cur.paths = d.paths
    /\ \A p \in Range(d.paths) : cur.pths[p].segments = d.pths[p].segments
    /\ \A s \in DocSegs(d) : cur.segs[s] = d.segs[s]
    /\ \A c \in DocCtls(d) : cur.ctl[c].x = d.ctl[c].x /\ cur.ctl[c].y = d.ctl[c].y
    /\ \A k \in DocKfs(d) : cur.kfs[k] = d.kfs[k]

(***************************************************************************)
(* C1: a command executed on its own (not merged) is undone to the         *)
(* document as it was before the execute, and redone to the document as    *)
(* it was after the execute.                                               *)
(***************************************************************************)
C1_RoundTrip ==
    ~snap.merged =>
        /\ snap.phase = "undone" => Restored(snap.pre, DocOf(World))
        /\ snap.phase = "redone" => Restored(snap.post, DocOf(World))

(***************************************************************************)
(* C2: when B is merged into the pending A the history holds one entry     *)
(* for both, and one undo gives the document as it was before A.           *)
(***************************************************************************)
C2_OneEntry ==
    (op'.name = "execute" /\ op'.merged) =>
        /\ history' = history
        /\ lastExecution'.command = lastExecution.command
        /\ Len(Done(Hist)') = Len(Done(Hist))

C2_OneUndo ==
    (snap'.merged /\ snap'.phase = "undone") => Restored(snap'.pre, DocOf(World)')

C2_MergeLaw == [][C2_OneEntry /\ C2_OneUndo]_vars

(***************************************************************************)
(* C3: every execute, merged or not, leaves the undone stack empty, and a  *)
(* redo right after it does nothing.                                       *)
(***************************************************************************)
C3_RedoCleared ==
    [][/\ op'.name = "execute" => redoHistory' = <<>>
       /\ (op.name = "execute" /\ op'.name = "redo") =>
              /\ calls' = <<>>
              /\ DocOf(World)' = DocOf(World)
              /\ history' = history]_vars

\* an execute that found undone commands
C3_Witness == op.name = "execute" /\ op.undone > 0 /\ redoHistory = <<>>

(***************************************************************************)
(* C4: isModified returns false while a save is the last change of the     *)
(* history, and true after a save followed by executes only.               *)
(***************************************************************************)
C4_DirtyCheck ==
    [][op'.name = "isModified" =>
          /\ snap.saved = "clean" => ~op'.ret
          /\ snap.saved = "dirty" => op'.ret]_vars

\* isModified after a save of a pending command and one more execute
C4_Witness ==
    /\ op.name = "isModified"
    /\ op.ret
    /\ snap.saved = "dirty"
    /\ savedCommand # Undefined

(***************************************************************************)
(* C5: in every path, the last control of a segment and the first control  *)
(* of the segment after it are the same object.                            *)
(***************************************************************************)
C5_Continuity ==
    \A p \in Range(paths) :
        \A i \in 1..(Len(pths[p].segments) - 1) :
            LET a == pths[p].segments[i]
                b == pths[p].segments[i + 1]
            IN /\ a # Undefined
               /\ b # Undefined
               /\ last(World, a) # Undefined
               /\ last(World, a) = first(World, b)

(***************************************************************************)
(* C6: every segment of a path has 2 or 4 controls, the first and the      *)
(* last are end-point controls and the ones between are plain controls.    *)
(***************************************************************************)
C6_Shape ==
    /\ \A p \in Range(paths) : Undefined \notin Range(pths[p].segments)
    /\ \A s \in DocSegs(DocOf(World)) :
        LET cs == segs[s].controls
        IN /\ Len(cs) \in {2, 4}
           /\ \A i \in 1..Len(cs) : ctl[cs[i]].end <=> (i = 1 \/ i = Len(cs))

(***************************************************************************)
(* C7: execute merges the new command into the pending one exactly when    *)
(* the titles are equal, both commands are mergeable and of the same       *)
(* kind, the time since the pending command was last touched is below the  *)
(* window and the merge predicate returns true.  A merge only moves the    *)
(* time of the pending entry; otherwise the pending entry is committed     *)
(* and the new command becomes the pending one.                            *)
(***************************************************************************)
C7_MayMerge ==
    /\ lastExecution # None
    /\ op'.title = lastExecution.title
    /\ isMergeable(cmds'[op'.cmd].kind)
    /\ isMergeable(cmds[lastExecution.command].kind)
    /\ now' - lastExecution.time < MergeTimeout
    /\ op'.result = "true"

C7_Outcome ==
    IF op'.merged
    THEN /\ history' = history
         /\ lastExecution' = [lastExecution EXCEPT !.time = now']
    ELSE /\ history' = Done(Hist)
         /\ lastExecution' = [title |-> op'.title, command |-> op'.cmd, time |-> now',
                              mergeTimeout |-> MergeTimeout]

C7_MergeRule ==
    [][op'.name = "execute" =>
          /\ op'.merged <=>
                 (C7_MayMerge /\ cmds'[op'.cmd].kind = cmds[lastExecution.command].kind)
          /\ C7_Outcome]_vars

(***************************************************************************)
(* C8: undo takes the pending command into the done stack, so that it      *)
(* undoes the command executed or merged into last; it removes it from     *)
(* the done stack, calls its undo once and puts it on the undone stack.    *)
(***************************************************************************)
Calls(m) == SelectSeq(calls, LAMBDA x : x.m = m)

\* the steps of an undo that finds a command
C8_Steps ==
    (op'.name = "undo" /\ Done(Hist) # <<>>) =>
        LET d == Done(Hist)
            c == d[Len(d)]
        IN /\ op'.cmd = c
           /\ lastExecution' = None
           /\ history' = Pop(d)
           /\ redoHistory' = Append(redoHistory, c)
           /\ Calls("undo")' = <<Call("undo", c)>>
           /\ Calls("redo")' = <<>>
           /\ Calls("execute")' = <<>>

\* an undo right after an execute undoes the command that execute ran, or the
\* pending command it was merged into
C8_LastExecuted ==
    (op.name = "execute" /\ op'.name = "undo") =>
        op'.cmd = (IF op.merged THEN lastExecution.command ELSE op.cmd)

C8_Undo == [][C8_Steps /\ C8_LastExecuted]_vars

(***************************************************************************)
(* C9: redo takes the command undone last, calls its redo once and puts    *)
(* it on the done stack; after k undos and k redos the done stack is what  *)
(* it was before the undos.                                                *)
(***************************************************************************)
C9_Redo ==
    [][/\ (op'.name = "redo" /\ redoHistory # <<>>) =>
              LET c == redoHistory[Len(redoHistory)]
              IN /\ op'.cmd = c
                 /\ (op.name = "undo" /\ op.cmd # 0) => c = op.cmd
                 /\ redoHistory' = Pop(redoHistory)
                 /\ history' = Append(Done(Hist), c)
                 /\ Calls("redo")' = <<Call("redo", c)>>
                 /\ Calls("undo")' = <<>>
                 /\ Calls("execute")' = <<>>
       /\ (snap'.k > 0 /\ snap'.j = snap'.k) => Done(Hist)' = snap'.base]_vars

\* two undos followed by two redos
C9_Witness == op.name = "redo" /\ snap.k = 2 /\ snap.j = 2 /\ Len(history) = 2

(***************************************************************************)
(* C10: undo with nothing done and nothing pending, and redo with nothing  *)
(* undone, change neither stack, call no command, leave the document as    *)
(* it is and publish no selection.                                         *)
(***************************************************************************)
C10_NoOp ==
    [][((op'.name = "undo" /\ Done(Hist) = <<>>) \/ (op'.name = "redo" /\ redoHistory = <<>>)) =>
          /\ history' = history
          /\ redoHistory' = redoHistory
          /\ lastExecution' = lastExecution
          /\ calls' = <<>>
          /\ DocOf(World)' = DocOf(World)
          /\ cmds' = cmds
          /\ selected' = selected]_vars

\* an undo with nothing left to undo while entities are selected
C10_Witness == op.name = "undo" /\ op.done = 0 /\ op.cmd = 0 /\ selected # <<>>

(***************************************************************************)
(* C11: a SplitSegment or ConvertSegment whose segment is not in the path, *)
(* and a RemoveSegment whose point is no removable end of a segment of     *)
(* the path, leave the segment list of the path and the control list of    *)
(* every segment as they were.                                             *)
(***************************************************************************)
\* the command being executed has no target in its path
C11_Stale ==
    LET cmd == cmds'[op'.cmd]
        segments == pths[cmd.path].segments
    IN \/ cmd.kind = "SplitSegment" /\ cmd.originalSegment \notin Range(segments)
       \/ cmd.kind = "ConvertSegment" /\ cmd.segment \notin Range(segments)
       \/ /\ cmd.kind = "RemoveSegment"
          /\ \A i \in 0..(Len(segments) - 1) : ~RemoveSegmentHit(World, segments, cmd.point, i)

C11_NoMutation ==
    [][(op'.name = "execute" /\ C11_Stale) =>
          /\ pths' = pths
          /\ \A s \in 1..Len(segs) : segs'[s].controls = segs[s].controls]_vars

(***************************************************************************)
(* C12: the history calls execute() of a command once, when the command    *)
(* is handed to it and before any undo() or redo() of it; after that the   *)
(* undo() and redo() calls on the command alternate, undo() first; no      *)
(* undo() or redo() is called on a command that was not executed.          *)
(***************************************************************************)
\* the i-th call of the handler is allowed by the life of its command so far
C12_Allowed(i) ==
    LET x == calls'[i]
        before == Lived(life, SubSeq(calls', 1, i - 1), 1)
    IN /\ x.m = "execute" => x.c > Len(before)
       /\ x.m = "undo" => x.c \in 1..Len(before) /\ before[x.c] = "done"
       /\ x.m = "redo" => x.c \in 1..Len(before) /\ before[x.c] = "undone"

C12_LifeCycle ==
    [][/\ \A i \in 1..Len(calls') : C12_Allowed(i)
       /\ Calls("execute")' =
              (IF op'.name = "execute" THEN <<Call("execute", op'.cmd)>> ELSE <<>>)
       /\ Len(life') = Len(cmds')]_vars

\* a command redone while a later command is undone
C12_Witness ==
    /\ op.name = "redo" /\ op.cmd # 0 /\ life[op.cmd] = "done"
    /\ \E c \in 1..Len(life) : life[c] = "undone"

(***************************************************************************)
(* C13: a drag of a control with its followers, followed within the merge  *)
(* window by a second drag of the same control with the same followers,    *)
(* is one entry of the history, and undoing that entry puts the control    *)
(* and every follower back at the coordinates they had before the first    *)
(* drag.                                                                   *)
(***************************************************************************)
\* the step merges a drag into the pending drag
C13_Merging ==
    /\ op'.name = "execute" /\ op'.merged
    /\ cmds[lastExecution.command].kind = "DragControls"

\* the step undoes a drag that a second drag was merged into
C13_Undoing ==
    /\ op'.name = "undo" /\ op'.cmd # 0
    /\ snap.phase = "executed" /\ snap.merged
    /\ cmds[op'.cmd].kind = "DragControls"

C13_DragCoalescing ==
    [][/\ C13_Merging =>
            /\ history' = history
            /\ lastExecution'.command = lastExecution.command
       /\ C13_Undoing =>
            /\ Done(Hist)' = Pop(Done(Hist))
            /\ \A c \in {cmds[op'.cmd].main} \cup Range(cmds[op'.cmd].followers) :
                  /\ ctl'[c].x = snap.pre.ctl[c].x
                  /\ ctl'[c].y = snap.pre.ctl[c].y]_vars

(***************************************************************************)
(* C14: DragControls.merge returns true only for two drags of the same     *)
(* main control object with the same follower objects in the same order;   *)
(* when it returns false the pending drag is as it was and the second      *)
(* drag becomes the pending entry, the first one going to the done stack.  *)
(***************************************************************************)
\* execute has called the merge of a pending drag with a new drag
C14_DragMerge ==
    /\ op'.name = "execute" /\ op'.result \in {"true", "false"}
    /\ cmds[lastExecution.command].kind = "DragControls"
    /\ cmds'[op'.cmd].kind = "DragControls"

C14_Identity ==
    [][C14_DragMerge =>
          LET a == lastExecution.command
              b == op'.cmd
          IN /\ op'.result = "true" =>
                   /\ cmds'[a].main = cmds'[b].main
                   /\ cmds'[a].followers = cmds'[b].followers
             /\ op'.result = "false" =>
                   /\ cmds'[a] = cmds[a]
                   /\ ~op'.merged
                   /\ history' = Append(history, a)
                   /\ lastExecution'.command = b]_vars

\* a drag was refused although it has the main control of the pending drag
\* and the same two followers, in the other order
C14_Witness ==
    /\ op.name = "execute" /\ op.result = "false" /\ history # <<>>
    /\ cmds[op.cmd].kind = "DragControls"
    /\ cmds[history[Len(history)]].kind = "DragControls"
    /\ cmds[op.cmd].main = cmds[history[Len(history)]].main
    /\ Len(cmds[op.cmd].followers) = 2
    /\ Range(cmds[op.cmd].followers) = Range(cmds[history[Len(history)]].followers)
    /\ cmds[op.cmd].followers # cmds[history[Len(history)]].followers

(***************************************************************************)
(* C15: when an update B of a batch of targets is merged into the pending  *)
(* update A of the same batch, the prior value stored for a key of a       *)
(* target is the one A saw if A set the key and the one B saw otherwise,   *)
(* and the new value stored for a key is B's if B set the key and A's      *)
(* otherwise; undoing the merged command gives every key set by A or B     *)
(* the value it had before A on every target, and redoing it gives every   *)
(* such key the combined new value.                                        *)
(***************************************************************************)
\* the step merges the update op'.cmd into the pending update of the same batch
C15_Merging ==
    /\ op'.name = "execute" /\ op'.merged
    /\ IsUpdateKind(cmds[lastExecution.command].kind)
    /\ IsUpdateKind(cmds'[op'.cmd].kind)
    /\ cmds[lastExecution.command].targets = cmds'[op'.cmd].targets

C15_Stored ==
    LET A == cmds[lastExecution.command]
        B == cmds'[op'.cmd]
        M == cmds'[lastExecution.command]
        keysA == DOMAIN A.newValues
        keysB == DOMAIN B.newValues
    IN /\ DOMAIN M.newValues = keysA \cup keysB
       /\ \A k \in keysB : M.newValues[k] = B.newValues[k]
       /\ \A k \in keysA \ keysB : M.newValues[k] = A.newValues[k]
       /\ \A i \in 1..Len(A.targets) :
             /\ DOMAIN M.previousValue[i] = keysA \cup keysB
             /\ \A k \in keysA : M.previousValue[i][k] = A.previousValue[i][k]
             /\ \A k \in keysB \ keysA : M.previousValue[i][k] = B.previousValue[i][k]

\* the step undoes (m = "undo") or redoes an update that another was merged into
C15_Replaying(m) ==
    /\ op'.name = m /\ op'.cmd # 0
    /\ snap.merged /\ snap.phase = (IF m = "undo" THEN "executed" ELSE "undone")
    /\ IsUpdateKind(cmds[op'.cmd].kind)

C15_UpdateMerge ==
    [][/\ C15_Merging => C15_Stored
       /\ C15_Replaying("undo") =>
             \A t \in Range(cmds[op'.cmd].targets), k \in DOMAIN cmds[op'.cmd].newValues :
                 GetKey(ctl'[t], k) = GetKey(snap.pre.ctl[t], k)
       /\ C15_Replaying("redo") =>
             \A t \in Range(cmds[op'.cmd].targets), k \in DOMAIN cmds[op'.cmd].newValues :
                 GetKey(ctl'[t], k) = cmds[op'.cmd].newValues[k]]_vars

\* a merged update of two targets redone, where the first command set x and y
\* and the second set x again
C15_Witness ==
    /\ op.name = "redo" /\ op.cmd # 0 /\ snap.merged /\ snap.phase = "redone"
    /\ IsUpdateKind(cmds[op.cmd].kind)
    /\ Len(cmds[op.cmd].targets) = 2
    /\ cmds[op.cmd].newValues = ("x" :> 7 * Milli @@ "y" :> 6 * Milli)

(***************************************************************************)
(* C16: splitting a line of two controls at a new end point gives two      *)
(* lines of two controls, the second directly after the first, that share  *)
(* the new point as one object; removing that point then leaves the path   *)
(* with the segments it had before the split and the first line joining    *)
(* the two end points it joined before, the same objects.                  *)
(***************************************************************************)
\* the last handler was the execute of a SplitSegment on a line of its path
C16_SplitDone ==
    /\ op.name = "execute" /\ op.cmd # 0 /\ snap.phase = "executed"
    /\ cmds[op.cmd].kind = "SplitSegment"
    /\ cmds[op.cmd].originalSegment \in Range(snap.pre.pths[cmds[op.cmd].path].segments)
    /\ Len(snap.pre.segs[cmds[op.cmd].originalSegment].controls) = 2

\* the two lines after the split
C16_Halves ==
    LET cmd == cmds[op.cmd]
        os == cmd.originalSegment
        ns == cmd.newSegment
        ends == snap.pre.segs[os].controls
        before == snap.pre.pths[cmd.path].segments
    IN /\ ns # Undefined
       /\ segs[os].controls = <<ends[1], cmd.point>>
       /\ segs[ns].controls = <<cmd.point, ends[2]>>
       /\ pths[cmd.path].segments = Splice(before, IndexOf(before, os) + 1, 0, <<ns>>)

\* the step executes a RemoveSegment of the point of the split just done
C16_Removing ==
    /\ C16_SplitDone
    /\ op'.name = "execute" /\ cmds'[op'.cmd].kind = "RemoveSegment"
    /\ cmds'[op'.cmd].path = cmds[op.cmd].path
    /\ cmds'[op'.cmd].point = cmds[op.cmd].point

C16_SplitRemove ==
    [][/\ C16_SplitDone' => C16_Halves'
       /\ C16_Removing =>
             LET cmd == cmds[op.cmd]
             IN /\ pths'[cmd.path].segments = snap.pre.pths[cmd.path].segments
                /\ segs'[cmd.originalSegment].controls =
                       snap.pre.segs[cmd.originalSegment].controls]_vars

\* the point of a split has been removed right after the split
C16_Witness ==
    /\ op.name = "execute" /\ op.cmd > 1
    /\ cmds[op.cmd].kind = "RemoveSegment" /\ cmds[op.cmd - 1].kind = "SplitSegment"
    /\ history = <<op.cmd - 1>>
    /\ cmds[op.cmd - 1].newSegment # Undefined
    /\ cmds[op.cmd].segment = cmds[op.cmd - 1].newSegment
    /\ cmds[op.cmd].point = cmds[op.cmd - 1].point
    /\ Len(cmds[op.cmd - 1].previousOriginalSegmentControls) = 2

(***************************************************************************)
(* C17: when AddKeyframe has put a keyframe on a segment S at (x, y) and   *)
(* MoveKeyframe has moved it to another segment S2, one undo leaves the    *)
(* same keyframe object in the list of S, once, with xPos = x and          *)
(* yPos = y, and not in the list of S2.                                    *)
(***************************************************************************)
\* the keyframe k is where AddKeyframe put it in the document d: once in the
\* list of pos.segment, in no other list, at (pos.xPos, pos.yPos)
C17_Placed(d, k, pos) ==
    /\ d.kfs[k] = [xPos |-> pos.xPos, yPos |-> pos.yPos]
    /\ \A s \in DocSegs(d) :
          LET list == d.segs[s].speedProfiles
          IN Cardinality({i \in 1..Len(list) : list[i] = k}) =
                 (IF s = pos.segment THEN 1 ELSE 0)

\* the step undoes a MoveKeyframe that has just been executed on the keyframe
\* as its AddKeyframe, the command before it, had placed it, and that took
\* the keyframe to another segment
C17_UndoingMove ==
    LET d == Done(Hist)
    IN /\ op'.name = "undo" /\ Len(d) >= 2
       /\ lastExecution # None /\ snap.phase = "executed"
       /\ cmds[d[Len(d)]].kind = "MoveKeyframe"
       /\ cmds[d[Len(d) - 1]].kind = "AddKeyframe"
       /\ cmds[d[Len(d)]].kf = cmds[d[Len(d) - 1]].kf
       /\ cmds[d[Len(d)]].newPos.segment # cmds[d[Len(d) - 1]].pos.segment
       /\ C17_Placed(snap.pre, cmds[d[Len(d)]].kf, cmds[d[Len(d) - 1]].pos)

C17_MoveUndone ==
    [][C17_UndoingMove =>
          LET d == Done(Hist)
              k == cmds[d[Len(d)]].kf
              pos == cmds[d[Len(d) - 1]].pos
              list == segs'[pos.segment].speedProfiles
          IN /\ op'.cmd = d[Len(d)]
             /\ Cardinality({i \in 1..Len(list) : list[i] = k}) = 1
             /\ kfs'[k] = [xPos |-> pos.xPos, yPos |-> pos.yPos]
             /\ k \notin Range(segs'[cmds[d[Len(d)]].newPos.segment].speedProfiles)]_vars

\* such a move has been undone
C17_Witness ==
    /\ op.name = "undo" /\ op.cmd # 0 /\ history # <<>>
    /\ op.pending /\ snap.phase = "undone"
    /\ cmds[op.cmd].kind = "MoveKeyframe"
    /\ cmds[history[Len(history)]].kind = "AddKeyframe"
    /\ cmds[history[Len(history)]].kf = cmds[op.cmd].kf
    /\ cmds[op.cmd].newPos.segment # cmds[history[Len(history)]].pos.segment
    /\ cmds[op.cmd].newPos.xPos # cmds[history[Len(history)]].pos.xPos
    /\ C17_Placed(snap.pre, cmds[op.cmd].kf, cmds[history[Len(history)]].pos)

(***************************************************************************)
(* C18: the keyframe list of every segment is in ascending order of xPos,  *)
(* whatever AddKeyframe, MoveKeyframe and RemoveKeyframe commands have     *)
(* been executed, merged, undone and redone.                               *)
(***************************************************************************)
C18_Sorted ==
    \A s \in 1..Len(segs) :
        LET list == segs[s].speedProfiles
        IN \A i \in 1..Len(list), j \in 1..Len(list) :
               i < j => kfs[list[i]].xPos <= kfs[list[j]].xPos

(***************************************************************************)
(* C19: the redo of an AddSegment, SplitSegment, RemoveSegment or          *)
(* AddKeyframe constructs no control, segment or keyframe; it puts back    *)
(* (or takes out) the objects its execute created or recorded, so that     *)
(* the lists of the document hold the same objects as right after the      *)
(* execute.                                                                *)
(***************************************************************************)
C19_Kinds == {"AddSegment", "SplitSegment", "RemoveSegment", "AddKeyframe"}

\* the lists of the document hold the objects they held in d
C19_SameObjects(d, cur) ==
    /\ cur.paths = d.paths
    /\ \A p \in Range(d.paths) : cur.pths[p].segments = d.pths[p].segments
    /\ \A s \in DocSegs(d) :
          /\ cur.segs[s].controls = d.segs[s].controls
          /\ cur.segs[s].speedProfiles = d.segs[s].speedProfiles

C19_RedoReuses ==
    [][(op'.name = "redo" /\ op'.cmd # 0 /\ cmds[op'.cmd].kind \in C19_Kinds) =>
          /\ Len(ctl') = Len(ctl)
          /\ Len(segs') = Len(segs)
          /\ Len(kfs') = Len(kfs)
          /\ snap.phase = "undone" => C19_SameObjects(snap.post, DocOf(World)')]_vars

(***************************************************************************)
(* C20: commit() moves the pending command, if there is one, onto the top  *)
(* of the done stack, calls no command and leaves the undone stack, the    *)
(* saved mark, the selection and the document as they were; with nothing   *)
(* pending it changes nothing.  undo(), save() and isModified() start with *)
(* this commit: each leaves nothing pending, undo() undoes the command     *)
(* that was pending, save() and isModified() leave it on the done stack    *)
(* and call no command.  An execute that follows any of the four calls no  *)
(* merge and leaves its own command pending.                               *)
(***************************************************************************)
C20_Committing == {"commit", "undo", "save", "isModified"}

\* the done stack once the pending command has been pushed
C20_Flushed ==
    IF lastExecution # None THEN Append(history, lastExecution.command) ELSE history

\* nothing but the history changes, and no command is called
C20_Frame ==
    /\ calls' = <<>>
    /\ DocOf(World)' = DocOf(World)
    /\ cmds' = cmds
    /\ redoHistory' = redoHistory
    /\ selected' = selected

C20_CommitFirst ==
    [][/\ op'.name \in C20_Committing => lastExecution' = None
       /\ op'.name = "commit" =>
             C20_Frame /\ history' = C20_Flushed /\ savedCommand' = savedCommand
       /\ op'.name = "save" => C20_Frame /\ history' = C20_Flushed
       /\ op'.name = "isModified" =>
             C20_Frame /\ history' = C20_Flushed /\ savedCommand' = savedCommand
       /\ (op'.name = "undo" /\ lastExecution # None) =>
             /\ op'.cmd = lastExecution.command
             /\ history' = history
             /\ redoHistory' = Append(redoHistory, lastExecution.command)
       /\ (op.name \in C20_Committing /\ op'.name = "execute") =>
             /\ ~op'.merged
             /\ calls' = <<Call("execute", op'.cmd)>>
             /\ lastExecution'.command = op'.cmd
             /\ history' = history]_vars

\* a commit has moved a pending command onto a done stack that held one already
C20_Witness ==
    /\ op.name = "commit" /\ op.pending
    /\ lastExecution = None
    /\ Len(history) = 2

(***************************************************************************)
(* C21: AddPath.execute appends its path at the end of the list of paths;  *)
(* AddPath.undo takes exactly one entry out of the list, the path of the   *)
(* command, and leaves every other path where it was; RemovePath.undo puts *)
(* the path back at the index RemovePath.execute found it at, so that an   *)
(* undo right after the execute leaves the list as it was before.          *)
(***************************************************************************)
\* the list s without its entry at the 1-based position i
C21_Without(s, i) == SubSeq(s, 1, i - 1) \o SubSeq(s, i + 1, Len(s))

C21_PathOrder ==
    [][/\ (op'.name = "execute" /\ cmds'[op'.cmd].kind = "AddPath") =>
             paths' = Append(paths, cmds'[op'.cmd].path)
       /\ (op'.name = "undo" /\ op'.cmd # 0 /\ cmds[op'.cmd].kind = "AddPath") =>
             \E i \in 1..Len(paths) :
                 paths[i] = cmds[op'.cmd].path /\ paths' = C21_Without(paths, i)
       /\ (op'.name = "undo" /\ op'.cmd # 0 /\ cmds[op'.cmd].kind = "RemovePath"
            /\ cmds[op'.cmd].index >= 0) =>
             /\ At(paths', cmds[op'.cmd].index) = cmds[op'.cmd].path
             /\ C21_Without(paths', cmds[op'.cmd].index + 1) = paths
             /\ (snap.phase = "executed" /\ lastExecution # None) => paths' = snap.pre.paths]_vars

(***************************************************************************)
(* C26: while a command is pending (executed and not yet committed) the    *)
(* undone stack is empty, so that a redo() called then finds nothing to    *)
(* redo, although redo() does not commit first.                            *)
(***************************************************************************)
C26_PendingNoUndone == lastExecution # None => redoHistory = <<>>

\* redo() has been called with a command pending: it called no command
C26_Witness ==
    /\ op.name = "redo" /\ op.pending /\ op.cmd = 0
    /\ lastExecution # None /\ history # <<>>

(***************************************************************************)
(* C28: when the execute of a SplitSegment, ConvertSegment or              *)
(* RemoveSegment did not find its target in the path and changed no list,  *)
(* the undo() and the redo() of that command change neither the segment    *)
(* list of a path nor the control list of a segment.                       *)
(***************************************************************************)
C28_Kinds == {"SplitSegment", "ConvertSegment", "RemoveSegment"}

\* the target of the command is not in its path in the document d
C28_StaleIn(d, cmd) ==
    LET segments == d.pths[cmd.path].segments
    IN \/ cmd.kind = "SplitSegment" /\ cmd.originalSegment \notin Range(segments)
       \/ cmd.kind = "ConvertSegment" /\ cmd.segment \notin Range(segments)
       \/ /\ cmd.kind = "RemoveSegment"
          /\ \A i \in 0..(Len(segments) - 1) : ~RemoveSegmentHit(d, segments, cmd.point, i)

\* the segment lists and the control lists of d and e are the same
C28_SameLists(d, e) ==
    /\ e.pths = d.pths
    /\ Len(e.segs) = Len(d.segs)
    /\ \A s \in 1..Len(d.segs) : e.segs[s].controls = d.segs[s].controls

\* the step undoes the command executed last, or redoes it after that undo
C28_Reversing ==
    /\ op'.cmd # 0
    /\ \/ op'.name = "undo" /\ snap.phase = "executed"
       \/ op'.name = "redo" /\ snap.phase = "undone"

C28_StaleNoOp ==
    [][(/\ C28_Reversing
        /\ cmds[op'.cmd].kind \in C28_Kinds
        /\ C28_StaleIn(snap.pre, cmds[op'.cmd])
        /\ C28_SameLists(snap.pre, snap.post)) =>
          C28_SameLists(DocOf(World), DocOf(World)')]_vars

(***************************************************************************)
(* C29: RemovePath.execute takes exactly the given path out of the list of *)
(* paths; when the path is not in the list, the execute, the undo() and    *)
(* the redo() of the command leave the list as it is.                      *)
(***************************************************************************)
C29_RemoveExact ==
    [][/\ (op'.name = "execute" /\ cmds'[op'.cmd].kind = "RemovePath") =>
             LET p == cmds'[op'.cmd].path
             IN IF p \in Range(paths)
                THEN \E i \in 1..Len(paths) : paths[i] = p /\ paths' = C21_Without(paths, i)
                ELSE paths' = paths
       /\ (op'.name \in {"undo", "redo"} /\ op'.cmd # 0
           /\ cmds[op'.cmd].kind = "RemovePath" /\ cmds[op'.cmd].index = -1) =>
             paths' = paths]_vars

(***************************************************************************)
(* C27: every command object is handed to execute once.  Whenever          *)
(* isModified() returns false, the done stack holds the same commands in   *)
(* the same order as right after the last save(), or is empty when no      *)
(* save() was called since the last clearHistory() or since the start.     *)
(***************************************************************************)
C27_Sound ==
    [][(op'.name = "isModified" /\ ~op'.ret) => history' = snap.savedDone]_vars

\* isModified() has returned false on a done stack of two commands that were
\* undone and redone after the save
C27_Witness ==
    /\ op.name = "isModified" /\ ~op.ret
    /\ Len(history) = 2 /\ snap.saved = "unknown"
    /\ snap.k = 2 /\ snap.j = 2

(***************************************************************************)
(* C30: an undo() or redo() that finds a command with entities publishes   *)
(* the entities of the command, read after the command has been undone or  *)
(* redone, as the selection, once, and every entity it publishes is in the *)
(* document then.  The undo of an AddSegment, SplitSegment or AddPath and  *)
(* the redo of a RemoveSegment or RemovePath publish the empty selection;  *)
(* the redo of the former and the undo of the latter publish the entities  *)
(* that were added or put back.  For a command without entities the        *)
(* selection stays as it was.                                              *)
(***************************************************************************)
C30_Adds == {"AddSegment", "SplitSegment", "AddPath"}

C30_Removals == {"RemoveSegment", "RemovePath"}

\* the entity e is in the document d
C30_Present(e, d) ==
    IF e.t = "path" THEN e.id \in Range(d.paths) ELSE e.id \in DocCtls(d)

\* what the command c added or removed, as the document after the step has it
C30_Own(c) ==
    IF cmds'[c].kind \in {"AddPath", "RemovePath"}
    THEN PathAndControls(World', cmds'[c].path)
    ELSE cmds'[c].entities

C30_Published ==
    [][(op'.name \in {"undo", "redo"} /\ op'.cmd # 0) =>
          LET c == op'.cmd
              k == cmds[c].kind
              vanishing == \/ op'.name = "undo" /\ k \in C30_Adds
                           \/ op'.name = "redo" /\ k \in C30_Removals
              appearing == \/ op'.name = "redo" /\ k \in C30_Adds
                           \/ op'.name = "undo" /\ k \in C30_Removals
          IN IF isInteractiveEntitiesCommand(k)
             THEN /\ Calls("setSelected")' = <<Call("setSelected", c)>>
                  /\ selected' = CommandEntities(World', c)
                  /\ \A i \in 1..Len(selected') : C30_Present(selected'[i], DocOf(World)')
                  /\ vanishing => selected' = <<>>
                  /\ appearing => selected' = C30_Own(c)
             ELSE /\ Calls("setSelected")' = <<>>
                  /\ selected' = selected]_vars

\* C25: a message arriving on the channel replaces the stored message exactly
\* when it is a non-null object whose type is COPY_PATHS or COPY_CONTROLS;
\* any other message leaves the stored message as it was and raises no error;
\* the stored message changes only by an accepted message or a local copy,
\* which store their own message, and paste() uses the stored message.
C25_Accepted(data) == data.js = "object" /\ data.type \in {"COPY_PATHS", "COPY_CONTROLS"}

C25_LastStored ==
    [][/\ clip'.ev.name = "message" =>
            /\ ~clip'.error
            /\ clip'.message = IF C25_Accepted(clip'.ev.data) THEN clip'.ev.data
                                ELSE clip.message
       /\ clip'.ev.name = "copy" =>
            clip'.message = IF clip'.ev.ret THEN clip'.ev.data ELSE clip.message
       /\ clip'.ev.name \notin {"message", "copy"} => clip'.message = clip.message
       /\ clip'.ev.name = "paste" =>
            /\ clip.message # JsUndefined => clip'.ev.used = clip.message
            /\ clip'.ev.ret => clip'.ev.branch =
                    (IF clip.message.type = "COPY_PATHS" THEN "paths" ELSE "controls")]_vars

\* a paste uses the message of another window that arrived after a local
\* copy, a later message or copy having been turned down
C25_Witness ==
    /\ clip.ev.name = "paste"
    /\ clip.ev.ret
    /\ clip.ev.used.nonce = 2
    /\ clip.ev.used.format = "F2"
    /\ Len(clip.posted) = 1
    /\ clip.n = 3

\* C37: copy() with an empty selection, or with a selection that mixes paths
\* and controls, returns false, posts nothing and leaves the stored message
\* and the items as they were; cut() returns true exactly when its copy()
\* succeeded, and then executes one command, a RemovePathTreeItems of the
\* copied items, that is the one new entry of the history; a cut() that
\* returns false leaves the history, the commands and the paths unchanged.
C37_Unfit(sel) ==
    \/ Len(sel) = 0
    \/ \E i, j \in 1..Len(sel) : (sel[i].t = "path") # (sel[j].t = "path")

C37_CopyOrNothing ==
    [][clip'.n = clip.n + 1 =>
         /\ (clip'.ev.name = "copy" /\ C37_Unfit(selected)) =>
               /\ ~clip'.ev.ret
               /\ clip'.posted = clip.posted
               /\ clip'.message = clip.message
               /\ clip'.items = clip.items
         /\ clip'.ev.name = "cut" =>
               /\ clip'.ev.ret = ~C37_Unfit(selected)
               /\ IF clip'.ev.ret
                  THEN /\ Len(cmds') = Len(cmds) + 1
                       /\ cmds'[Len(cmds')].kind = "RemovePathTreeItems"
                       /\ cmds'[Len(cmds')].items = selected
                       /\ Len(clip'.posted) = Len(clip.posted) + 1
                       /\ op'.name = "execute" /\ op'.cmd = Len(cmds')
                       /\ Done(Hist)' = Append(Done(Hist), Len(cmds'))
                  ELSE /\ Hist' = Hist
                       /\ cmds' = cmds
                       /\ paths' = paths
                       /\ clip'.posted = clip.posted
                       /\ clip'.message = clip.message
                       /\ clip'.items = clip.items]_vars

\* a cut of a path and a control together fails after a cut of the path has
\* succeeded
C37_Witness ==
    /\ clip.ev.name = "cut"
    /\ ~clip.ev.ret
    /\ selected = <<PathEntity(1), CtlEntity(1)>>
    /\ Len(cmds) = 1
    /\ cmds[1].kind = "RemovePathTreeItems"
    /\ paths = <<>>
    /\ clip.message.type = "COPY_PATHS"

\* C36: after a paste() of a message of paths, in every pasted path the first
\* point of each segment but the first is the same object as the last point
\* of the segment before it; the path and each of its controls carry a uid
\* that makeId generated during this paste, no two of them the same; and the
\* pasted paths enter the list of paths by one executed command, an
\* InsertPaths of exactly these paths, the one new entry of the history.
C36_Pasted == {p \in 1..Len(pths') : p > Len(pths)}

C36_Controls(p) ==
    UNION {Range(segs'[pths'[p].segments[j]].controls) : j \in 1..Len(pths'[p].segments)}

C36_Fresh(uid) == uid.by = "makeId" /\ uid.n > clip.made /\ uid.n <= clip'.made

C36_PasteLinksAndRenames ==
    [][clip'.made # clip.made =>
         /\ C36_Pasted # {}
         /\ \A p \in C36_Pasted :
               /\ \A j \in 2..Len(pths'[p].segments) :
                     segs'[pths'[p].segments[j]].controls[1]
                         = segs'[pths'[p].segments[j - 1]].controls[
                               Len(segs'[pths'[p].segments[j - 1]].controls)]
               /\ C36_Fresh(uidOf(clip'.uid.path, p))
               /\ \A c \in C36_Controls(p) :
                     /\ C36_Fresh(uidOf(clip'.uid.control, c))
                     /\ uidOf(clip'.uid.control, c) # uidOf(clip'.uid.path, p)
                     /\ \A d \in C36_Controls(p) :
                           c # d => uidOf(clip'.uid.control, c) # uidOf(clip'.uid.control, d)
         /\ Len(cmds') = Len(cmds) + 1
         /\ cmds'[Len(cmds')].kind = "InsertPaths"
         /\ Range(cmds'[Len(cmds')].inserting) = C36_Pasted
         /\ op'.name = "execute" /\ op'.cmd = Len(cmds')
         /\ Done(Hist)' = Append(Done(Hist), Len(cmds'))
         /\ Range(paths') = Range(paths) \cup C36_Pasted
         /\ Len(paths') = Len(paths) + Cardinality(C36_Pasted)]_vars

\* the second paste, of a path this window copied after it had pasted the
\* path of another window
C36_Witness ==
    /\ clip.ev.name = "paste"
    /\ clip.ev.ret
    /\ Len(clip.posted) = 1
    /\ clip.ev.used = clip.posted[1]
    /\ Len(cmds) = 2
    /\ Len(paths) = 3
    /\ Len(pths[3].segments) = 2
    /\ segs[pths[3].segments[2]].controls[1] = segs[pths[3].segments[1]].controls[2]

\* C38: a click on the hit box of a spline that has a locked control, or whose
\* path is locked, executes no command and leaves the history and the
\* document as they were; on an unlocked spline a right click executes
\* exactly one command, a split of this spline at the point of the click, and
\* a left click executes exactly one command, a conversion of this spline to
\* CURVE when it has 2 controls and to LINEAR otherwise.
C38_Locked ==
    \/ \E c \in Range(segs[ui'.spline].controls) : c \in ui.lockedControls
    \/ ui'.path \in ui.lockedPaths

C38_OneCommand(kind) ==
    /\ Len(cmds') = Len(cmds) + 1
    /\ cmds'[Len(cmds')].kind = kind
    /\ cmds'[Len(cmds')].path = ui'.path
    /\ op'.name = "execute"
    /\ op'.cmd = Len(cmds')
    /\ Done(Hist)' = Append(Done(Hist), Len(cmds'))

C38_ClickOnHitBox ==
    [][ui'.clicks = ui.clicks + 1 =>
         /\ C38_Locked =>
               /\ cmds' = cmds
               /\ Hist' = Hist
               /\ DocOf(World)' = DocOf(World)
         /\ (~C38_Locked /\ ui'.button = 2) =>
               /\ C38_OneCommand("SplitSegment")
               /\ cmds'[Len(cmds')].originalSegment = ui'.spline
               /\ cmds'[Len(cmds')].point = Len(ctl) + 1
               /\ Len(ctl') > Len(ctl)
               /\ \E pt \in ClickPoints : ctl'[Len(ctl) + 1] = pt
               /\ Len(pths'[ui'.path].segments) = Len(pths[ui'.path].segments) + 1
         /\ (~C38_Locked /\ ui'.button = 0) =>
               /\ C38_OneCommand("ConvertSegment")
               /\ cmds'[Len(cmds')].segment = ui'.spline
               /\ cmds'[Len(cmds')].variant =
                     (IF Len(segs[ui'.spline].controls) = 2 THEN "CURVE" ELSE "LINEAR")
               /\ Len(segs'[ui'.spline].controls) =
                     (IF Len(segs[ui'.spline].controls) = 2 THEN 4 ELSE 2)]_vars

\* a right click on a spline with a locked control, after a right click that
\* split an unlocked spline of the same path
C38_Witness ==
    /\ ui.clicks = 2
    /\ ui.button = 2
    /\ ui.lockedControls = {2}
    /\ 2 \in Range(segs[ui.spline].controls)
    /\ Len(cmds) = 1
    /\ cmds[1].kind = "SplitSegment"
    /\ lastExecution # None

\* C22: in the first pass of Path.calculateKnots the knot at each point shared
\* by two consecutive segments appears exactly once in the concatenated
\* sequence: the sequence is the knots of the first segment followed by the
\* knots of every later segment without its first knot.
RECURSIVE C22_Concat(_, _, _, _)
C22_Concat(splines, i, gc, gen1) ==
    IF i > Len(splines) THEN gen1
    ELSE C22_Concat(splines, i + 1, gc,
                    gen1 \o
                    (IF i = 1
                     THEN SplineCalculateKnots(splines[i], gc, Zero)
                     ELSE Tail(SplineCalculateKnots(splines[i], gc, gen1[Len(gen1)].integral))))

C22_KnotsAt(gen1, c) == {j \in 1..Len(gen1) : gen1[j].x = c.x /\ gen1[j].y = c.y}

C22_BoundaryOnce ==
    kn.phase = "done" =>
        /\ kn.gen1 = C22_Concat(kn.path, 1, kn.gc, <<>>)
        /\ \A i \in 1..(Len(kn.path) - 1) :
              Cardinality(C22_KnotsAt(kn.gen1, kn.path[i][Len(kn.path[i])])) = 1

\* C23: for every path with at least one segment the knots returned start
\* with a knot that has the coordinates and heading of the first control of
\* the first segment and end with a knot that has the coordinates and
\* heading of the last control of the last segment and speed 0.
C23_SameSpot(knot, control) ==
    knot.x = control.x /\ knot.y = control.y /\ knot.heading = control.heading

C23_Pinned ==
    (kn.phase = "done" /\ Len(kn.path) >= 1) =>
        /\ ~kn.threw
        /\ Len(kn.knots) >= 1
        /\ C23_SameSpot(kn.knots[1], kn.path[1][1])
        /\ C23_SameSpot(kn.knots[Len(kn.knots)], lastControlOf(kn.path))
        /\ kn.knots[Len(kn.knots)].speed = Zero

\* C24: for every speed configuration with speedLimit.from <= speedLimit.to
\* every knot returned has a finite speed that does not exceed
\* speedLimit.to, also with transitionRange.from = 0 or transitionRange.to = 1.
C24_SpeedBounded ==
    (kn.phase = "done" /\ NLe(kn.sc.speedLimit.from, kn.sc.speedLimit.to)) =>
        \A i \in 1..Len(kn.knots) :
            /\ kn.knots[i].speed.k = "fin"
            /\ NLe(kn.knots[i].speed, kn.sc.speedLimit.to)


(***************************************************************************)
(* C31: whatever AddKeyframe, MoveKeyframe and RemoveKeyframe commands     *)
(* have been executed, undone and redone through the history, every        *)
(* keyframe object is in the keyframe list of at most one segment, and at  *)
(* most once in that list.                                                 *)
(***************************************************************************)
\* the places of the keyframe k: the segments and indices that hold it
C31_Places(k) ==
    {<<s, i>> \in (1..Len(segs)) \X (1..MaxKfs + 1) :
        i <= Len(segs[s].speedProfiles) /\ segs[s].speedProfiles[i] = k}

C31_Unique == \A k \in 1..Len(kfs) : Cardinality(C31_Places(k)) <= 1


(***************************************************************************)
(* C32: ConvertSegment to CURVE on a segment of two controls at index i    *)
(* of its path leaves it with the controls [p0, p1, p2, p3]: p0 and p3     *)
(* are the end points it had, the same objects; p1 is the reflection of    *)
(* the second-to-last control of the previous segment through p0 when      *)
(* i > 0, and the midpoint of p0 and p3 otherwise; p2 is the reflection    *)
(* of the second control of the next segment through p3 when there is a    *)
(* next segment, and the midpoint of p0 and p3 otherwise.  ConvertSegment  *)
(* to LINEAR leaves the first and the last control only.  A midpoint is    *)
(* taken to three decimals.                                                *)
(***************************************************************************)
\* image is the reflection of other through center
C32_Reflection(center, other, image) ==
    /\ image.x = 2 * center.x - other.x
    /\ image.y = 2 * center.y - other.y

\* m is the midpoint of p0 and p3, to the nearest thousandth
C32_Midpoint(p0, p3, m) ==
    /\ Abs(2 * m.x - (p0.x + p3.x)) <= 1
    /\ Abs(2 * m.y - (p0.y + p3.y)) <= 1

\* the step executes a ConvertSegment on a segment of its path
C32_Converting(variant) ==
    /\ op'.name = "execute" /\ Len(cmds') = Len(cmds) + 1 /\ op'.cmd = Len(cmds')
    /\ cmds'[op'.cmd].kind = "ConvertSegment" /\ cmds'[op'.cmd].variant = variant
    /\ cmds'[op'.cmd].segment \in Range(pths[cmds'[op'.cmd].path].segments)

C32_Curve ==
    LET cmd == cmds'[op'.cmd]
        segments == pths[cmd.path].segments
        i == IndexOf(segments, cmd.segment)
        before == segs[cmd.segment].controls
        after == segs'[cmd.segment].controls
        p0 == ctl[before[1]]
        p3 == ctl[before[2]]
    IN /\ Len(after) = 4 /\ after[1] = before[1] /\ after[4] = before[2]
       /\ IF i > 0
          THEN C32_Reflection(p0,
                   ctl[At(segs[At(segments, i - 1)].controls,
                          Len(segs[At(segments, i - 1)].controls) - 2)],
                   ctl'[after[2]])
          ELSE C32_Midpoint(p0, p3, ctl'[after[2]])
       /\ IF i + 1 < Len(segments)
          THEN C32_Reflection(p3, ctl[At(segs[At(segments, i + 1)].controls, 1)],
                              ctl'[after[3]])
          ELSE C32_Midpoint(p0, p3, ctl'[after[3]])

C32_Line ==
    LET before == segs[cmds'[op'.cmd].segment].controls
    IN segs'[cmds'[op'.cmd].segment].controls = <<before[1], before[Len(before)]>>

C32_ConvertShape ==
    [][/\ (C32_Converting("CURVE") /\ Len(segs[cmds'[op'.cmd].segment].controls) = 2)
            => C32_Curve
       /\ C32_Converting("LINEAR") => C32_Line]_vars


(***************************************************************************)
(* C33: add, subtract, multiply, divide, interpolate, mirror and setXY     *)
(* leave both coordinates of their result at the exact value rounded to    *)
(* three decimals, whether the result is a plain or a directional point;   *)
(* the heading of a directional result is in [0, 360) and has two          *)
(* decimals.                                                               *)
(***************************************************************************)
\* the exact coordinate of the result of the operation, as a fraction of
\* thousandths: a for this, b for other
C33_Exact(name, a, b, left, dist) ==
    IF name = "add" THEN <<a + b, 1>>
    ELSE IF name = "subtract" THEN <<a - b, 1>>
    ELSE IF name = "multiply" THEN <<a * b, Milli>>
    ELSE IF name = "divide" THEN IF b < 0 THEN <<-(a * Milli), -b>> ELSE <<a * Milli, b>>
    ELSE IF name = "interpolate" THEN <<IF left THEN a - dist ELSE a + dist, 1>>
    ELSE IF name = "mirror" THEN <<2 * a - b, 1>>
    ELSE <<b, 1>>

\* v is the fraction q of thousandths rounded to a whole thousandth
C33_Rounded(v, q) == v = RoundDiv(q[1], q[2])

C33_Precision ==
    vx.phase = "done" =>
        /\ C33_Rounded(vx.result.x,
                       C33_Exact(vx.op, vx.this.x, vx.other.x, vx.other.x < vx.this.x,
                                 vx.distance))
        /\ C33_Rounded(vx.result.y,
                       C33_Exact(vx.op, vx.this.y, vx.other.y, FALSE, 0))
        /\ vx.result.end =>
              /\ vx.result.heading >= 0 /\ vx.result.heading < 360 * Milli
              /\ vx.result.heading % 10 = 0


(***************************************************************************)
(* C34: for every path and every knot density the sampling loop of         *)
(* calculateBezierCurveKnots of every spline and the loop of the second    *)
(* pass of Path.calculateKnots come to an end.                             *)
(***************************************************************************)
C34_Terminates == <>(sm.phase \in {"done", "threw"})

(***************************************************************************)
(* C35: in the second pass of Path.calculateKnots closestIdx never         *)
(* exceeds the last index of gen1: at every sampled t in [0, 1) the knots  *)
(* gen1[closestIdx - 1] and gen1[closestIdx] exist, and closestIdx never   *)
(* decreases.                                                              *)
(***************************************************************************)
C35_Bracket ==
    [][sm.phase = "pass2" =>
          /\ sm'.phase # "threw"
          /\ sm'.closestIdx >= sm.closestIdx
          /\ sm'.closestIdx - 1 >= 0
          /\ sm'.closestIdx <= Len(sm.gen1) - 1]_vars

\* the second pass has sampled several times and has moved its bracket
C35_Witness ==
    /\ sm.phase = "pass2" /\ sm.samples >= 3 /\ sm.closestIdx >= 3
    /\ Len(sm.path) = 2

====
